---- MODULE Spec2Model ----
(***************************************************************************)
(* State-machine model of go-cloud-utils: the Firebase auth wrappers       *)
(* (firebase/auth.go) and the Cloudflare D1 / KV / R2 clients              *)
(* (cloudflare/*.go).  Strings are sequences of characters, a character    *)
(* being a one-letter string; a nil Go value is Nil.                       *)
(***************************************************************************)
EXTENDS Integers, Sequences, FiniteSets, TLC

VARIABLES inbox, auth, config, clients, calls, getenv, user, scope, kvStore, kvHist,
          r2Store, r2Hist, last, openBodies, streams

vars == <<inbox, auth, config, clients, calls, getenv, user, scope, kvStore, kvHist,
          r2Store, r2Hist, last, openBodies, streams>>

Nil == "nil"

(***************************************************************************)
(* Bounds of the model                                                     *)
(***************************************************************************)
MaxTokenLen == 2
MaxCtxLen == 1

(***************************************************************************)
(* strings.HasPrefix / strings.TrimPrefix as firebase/auth.go uses them    *)
(***************************************************************************)
HasPrefix(s, p) ==
    /\ Len(s) >= Len(p)
    /\ \A i \in 1..Len(p) : s[i] = p[i]

TrimPrefix(s, p) ==
    IF HasPrefix(s, p) THEN SubSeq(s, Len(p) + 1, Len(s)) ELSE s

SeqsUpTo(S, n) == UNION { [1..k -> S] : k \in 0..n }

(***************************************************************************)
(* firebase/auth.go: context keys, contexts and the accessors              *)
(*                                                                         *)
(* A context is the chain context.WithValue builds: a sequence of          *)
(* key/value entries, the innermost (latest) entry last.  A key is an      *)
(* interface value: its dynamic type and its string.  A value carries its  *)
(* dynamic type, and the string (s) or the *auth.Token (tok) it holds.     *)
(* An error is the sequence of the pieces of its message; nil is <<>>.     *)
(***************************************************************************)
NoErr == <<>>

NilToken == [nil |-> TRUE, UID |-> <<>>, raw |-> <<>>]

StringVal(s) == [type |-> "string", s |-> s, tok |-> NilToken]
TokenVal(t)  == [type |-> "*auth.Token", s |-> <<>>, tok |-> t]
IntVal       == [type |-> "int", s |-> <<>>, tok |-> NilToken]
NilVal       == [type |-> Nil, s |-> <<>>, tok |-> NilToken]

tokenKey == [type |-> "contextKey", name |-> "token"]
uidKey   == [type |-> "contextKey", name |-> "uid"]

WithValue(ctx, key, val) == Append(ctx, [key |-> key, val |-> val])

\* Mutant: keys are compared by their text, as plain strings would be.
RECURSIVE ValueByName(_, _)
ValueByName(ctx, key) ==
    IF ctx = <<>> THEN NilVal
    ELSE IF ctx[Len(ctx)].key.name = key.name THEN ctx[Len(ctx)].val
    ELSE ValueByName(SubSeq(ctx, 1, Len(ctx) - 1), key)

RECURSIVE Value(_, _)
Value(ctx, key) ==
    IF ctx = <<>> THEN NilVal
    ELSE IF ctx[Len(ctx)].key = key THEN ctx[Len(ctx)].val
    ELSE Value(SubSeq(ctx, 1, Len(ctx) - 1), key)

\* Mutant: the type assertion's ok is ignored.
GetUIDFromContextUnchecked(ctx) ==
    [uid |-> Value(ctx, uidKey).s, err |-> NoErr]

GetUIDFromContext(ctx) ==
    LET x == Value(ctx, uidKey)
    IN IF x.type = "string"
       THEN [uid |-> x.s, err |-> NoErr]
       ELSE [uid |-> <<>>, err |-> <<"uid not found in context or not a string">>]

GetTokenFromContext(ctx) ==
    LET x == Value(ctx, tokenKey)
    IN IF x.type = "*auth.Token"
       THEN [token |-> x.tok, err |-> NoErr]
       ELSE [token |-> NilToken,
             err |-> <<"token not found in context or not correct type">>]

(***************************************************************************)
(* firebase/auth.go: GetTokenFromRequest                                   *)
(* A request carries an Authorization header or none; Header.Get answers   *)
(* the empty string for a header that is absent.                           *)
(***************************************************************************)
BearerPrefix == <<"B", "e", "a", "r", "e", "r", " ">>

HeaderGet(r) == IF r.hasAuth THEN r.authorization ELSE <<>>

\* Mutant: the prefix is matched without regard to letter case.
GetTokenFromRequestAnyCase(r) ==
    LET authHeader == HeaderGet(r)
        lower == <<"b", "e", "a", "r", "e", "r", " ">>
    IN IF authHeader = <<>>
       THEN [token |-> <<>>, err |-> <<"authorization header is required">>]
       ELSE IF HasPrefix(authHeader, BearerPrefix) \/ HasPrefix(authHeader, lower)
       THEN [token |-> SubSeq(authHeader, Len(BearerPrefix) + 1, Len(authHeader)),
             err |-> NoErr]
       ELSE [token |-> <<>>,
             err |-> <<"authorization header must be in the format 'Bearer {token}'">>]

GetTokenFromRequest(r) ==
    LET authHeader == HeaderGet(r)
    IN IF authHeader = <<>>
       THEN [token |-> <<>>, err |-> <<"authorization header is required">>]
       ELSE IF HasPrefix(authHeader, BearerPrefix)
       THEN [token |-> TrimPrefix(authHeader, BearerPrefix), err |-> NoErr]
       ELSE [token |-> <<>>,
             err |-> <<"authorization header must be in the format 'Bearer {token}'">>]

(***************************************************************************)
(* firebase/auth.go: VerifyIDToken.  The backend verifier (fa.Auth) is     *)
(* outside the repository: its answer for this call is the input `answer`, *)
(* [ok, uid].  backend is the number of calls made to it.                  *)
(***************************************************************************)
\* Mutant: the empty token is sent to the backend like any other.
VerifyIDTokenNoEmptyCheck(idToken, answer) ==
    IF ~answer.ok
    THEN [token |-> NilToken,
          err |-> <<"error verifying ID token: ", "backend rejected">>,
          backend |-> 1]
    ELSE [token |-> [nil |-> FALSE, UID |-> answer.uid, raw |-> idToken],
          err |-> NoErr, backend |-> 1]

VerifyIDToken(idToken, answer) ==
    IF idToken = <<>>
    THEN [token |-> NilToken, err |-> <<"id token is empty">>, backend |-> 0]
    ELSE IF ~answer.ok
    THEN [token |-> NilToken,
          err |-> <<"error verifying ID token: ", "backend rejected">>,
          backend |-> 1]
    ELSE [token |-> [nil |-> FALSE, UID |-> answer.uid, raw |-> idToken],
          err |-> NoErr, backend |-> 1]

(***************************************************************************)
(* The wrapped handler (next).  It is the caller's code; the one modelled  *)
(* is startWebServer's: it reads the UID from the request context and      *)
(* greets it, or answers 500 when the accessor fails.  A call is recorded  *)
(* with the context it was given and what both accessors answered in it.   *)
(***************************************************************************)
StatusOK == 200
StatusUnauthorized == 401

StatusInternalServerError == 500

HttpError(msg, code) == [status |-> code, body |-> msg \o <<"\n">>]

NextHandler(ctx) ==
    LET u == GetUIDFromContext(ctx)
    IN [ctx |-> ctx,
        uid |-> u,
        token |-> GetTokenFromContext(ctx),
        resp |-> IF u.err # NoErr
                 THEN HttpError(<<"Failed to get UID from context">>,
                                StatusInternalServerError)
                 ELSE [status |-> StatusOK,
                       body |-> <<"Protected endpoint. Hello, ">> \o u.uid \o <<"!">>]]

(***************************************************************************)
(* firebase/auth.go: AuthMiddleware and RequireAuth.  Each answers the     *)
(* record of one handled request: the events in the order they happened,   *)
(* the calls made to the wrapped handler, and the response.                *)
(***************************************************************************)
ExtractEvent(x) == [ev |-> "GetTokenFromRequest", ok |-> x.err = NoErr,
                    token |-> x.token, uid |-> <<>>]
VerifyEvent(idToken, v) == [ev |-> "VerifyIDToken", ok |-> v.err = NoErr,
                            token |-> idToken, uid |-> v.token.UID]
NextEvent(t) == [ev |-> "next", ok |-> TRUE, token |-> t.raw, uid |-> t.UID]

\* Mutant: the verification error is not checked before next is served.
AuthMiddlewareNoVerifyCheck(r, answer) ==
    LET x == GetTokenFromRequest(r)
        v == VerifyIDToken(x.token, answer)
        ctx == WithValue(WithValue(r.ctx, tokenKey, TokenVal(v.token)),
                         uidKey, StringVal(v.token.UID))
    IN IF x.err # NoErr
       THEN [events |-> <<ExtractEvent(x)>>, backend |-> 0, calls |-> <<>>,
             resp |-> HttpError(x.err, StatusUnauthorized)]
       ELSE [events |-> <<ExtractEvent(x), VerifyEvent(x.token, v), NextEvent(v.token)>>,
             backend |-> v.backend, calls |-> <<NextHandler(ctx)>>,
             resp |-> NextHandler(ctx).resp]

AuthMiddleware(r, answer) ==
    LET x == GetTokenFromRequest(r)
        v == VerifyIDToken(x.token, answer)
        ctx == WithValue(WithValue(r.ctx, tokenKey, TokenVal(v.token)),
                         uidKey, StringVal(v.token.UID))
    IN IF x.err # NoErr
       THEN [events |-> <<ExtractEvent(x)>>, backend |-> 0, calls |-> <<>>,
             resp |-> HttpError(x.err, StatusUnauthorized)]
       ELSE IF v.err # NoErr
       THEN [events |-> <<ExtractEvent(x), VerifyEvent(x.token, v)>>,
             backend |-> v.backend, calls |-> <<>>,
             resp |-> HttpError(<<"Invalid token: ">> \o v.err, StatusUnauthorized)]
       ELSE [events |-> <<ExtractEvent(x), VerifyEvent(x.token, v), NextEvent(v.token)>>,
             backend |-> v.backend, calls |-> <<NextHandler(ctx)>>,
             resp |-> NextHandler(ctx).resp]

\* Mutant: a verification failure is reported without the "Invalid token: "
\* prefix.
RequireAuthBareMessage(r, answer) ==
    LET x == GetTokenFromRequest(r)
        v == VerifyIDToken(x.token, answer)
        ctx == WithValue(WithValue(r.ctx, tokenKey, TokenVal(v.token)),
                         uidKey, StringVal(v.token.UID))
    IN IF x.err # NoErr
       THEN [events |-> <<ExtractEvent(x)>>, backend |-> 0, calls |-> <<>>,
             resp |-> HttpError(x.err, StatusUnauthorized)]
       ELSE IF v.err # NoErr
       THEN [events |-> <<ExtractEvent(x), VerifyEvent(x.token, v)>>,
             backend |-> v.backend, calls |-> <<>>,
             resp |-> HttpError(v.err, StatusUnauthorized)]
       ELSE [events |-> <<ExtractEvent(x), VerifyEvent(x.token, v), NextEvent(v.token)>>,
             backend |-> v.backend, calls |-> <<NextHandler(ctx)>>,
             resp |-> NextHandler(ctx).resp]

\* Mutant: the two values are stored under each other's key.
RequireAuthSwappedKeys(r, answer) ==
    LET x == GetTokenFromRequest(r)
        v == VerifyIDToken(x.token, answer)
        ctx == WithValue(WithValue(r.ctx, uidKey, TokenVal(v.token)),
                         tokenKey, StringVal(v.token.UID))
    IN IF x.err # NoErr
       THEN [events |-> <<ExtractEvent(x)>>, backend |-> 0, calls |-> <<>>,
             resp |-> HttpError(x.err, StatusUnauthorized)]
       ELSE IF v.err # NoErr
       THEN [events |-> <<ExtractEvent(x), VerifyEvent(x.token, v)>>,
             backend |-> v.backend, calls |-> <<>>,
             resp |-> HttpError(<<"Invalid token: ">> \o v.err, StatusUnauthorized)]
       ELSE [events |-> <<ExtractEvent(x), VerifyEvent(x.token, v), NextEvent(v.token)>>,
             backend |-> v.backend, calls |-> <<NextHandler(ctx)>>,
             resp |-> NextHandler(ctx).resp]

RequireAuth(r, answer) ==
    LET x == GetTokenFromRequest(r)
        v == VerifyIDToken(x.token, answer)
        ctx == WithValue(WithValue(r.ctx, tokenKey, TokenVal(v.token)),
                         uidKey, StringVal(v.token.UID))
    IN IF x.err # NoErr
       THEN [events |-> <<ExtractEvent(x)>>, backend |-> 0, calls |-> <<>>,
             resp |-> HttpError(x.err, StatusUnauthorized)]
       ELSE IF v.err # NoErr
       THEN [events |-> <<ExtractEvent(x), VerifyEvent(x.token, v)>>,
             backend |-> v.backend, calls |-> <<>>,
             resp |-> HttpError(<<"Invalid token: ">> \o v.err, StatusUnauthorized)]
       ELSE [events |-> <<ExtractEvent(x), VerifyEvent(x.token, v), NextEvent(v.token)>>,
             backend |-> v.backend, calls |-> <<NextHandler(ctx)>>,
             resp |-> NextHandler(ctx).resp]

(***************************************************************************)
(* Inputs of the auth wrappers                                             *)
(***************************************************************************)
TokenChars == {"a", " "}
Tokens == SeqsUpTo(TokenChars, MaxTokenLen)

HeaderPrefixes ==
    { <<>>, BearerPrefix,
      <<"b", "e", "a", "r", "e", "r", " ">>,
      <<"B", "e", "a", "r", "e", "r">>,
      <<"T", "o", "k", "e", "n", " ">>,
      <<" ">> \o BearerPrefix }

HeaderValues == { p \o t : p \in HeaderPrefixes, t \in Tokens }

UIDs == { <<"u", "1">>, <<"u", "2">> }

Answers == { [ok |-> FALSE, uid |-> <<>>] } \cup { [ok |-> TRUE, uid |-> u] : u \in UIDs }

\* What a request context may hold before a wrapper sees it: values other
\* code stored under plain string keys, values of the wrong type under the
\* package's keys, and the values an enclosing wrapper stored.
OuterToken == [nil |-> FALSE, UID |-> <<"u", "0">>, raw |-> <<"o">>]

CtxEntries ==
    { [key |-> [type |-> "string", name |-> "uid"], val |-> StringVal(<<"x">>)],
      [key |-> [type |-> "string", name |-> "token"], val |-> TokenVal(OuterToken)],
      [key |-> uidKey, val |-> IntVal],
      [key |-> tokenKey, val |-> StringVal(<<"t">>)],
      [key |-> uidKey, val |-> StringVal(OuterToken.UID)],
      [key |-> tokenKey, val |-> TokenVal(OuterToken)] }

Contexts == SeqsUpTo(CtxEntries, MaxCtxLen)

Requests ==
    { [hasAuth |-> FALSE, authorization |-> <<>>, ctx |-> c] : c \in Contexts }
    \cup { [hasAuth |-> TRUE, authorization |-> h, ctx |-> c] :
             h \in HeaderValues, c \in Contexts }

NoOutcome == [events |-> <<>>, backend |-> 0, calls |-> <<>>,
              resp |-> [status |-> 0, body |-> <<>>]]

(***************************************************************************)
(* The auth server.  inbox is the request that arrived together with the   *)
(* answer the backend verifier will give for it; one action per way the    *)
(* request is served.  auth holds the request served and what serving it   *)
(* did.                                                                    *)
(***************************************************************************)
\* A client that has not been constructed, and the program before it has
\* constructed a configuration or a client.
Unbuilt == [built |-> FALSE, timeout |-> 0]

\* No user record has been fetched and no question asked of a user.
NoUser == [stage |-> "none"]

NoneBuilt == [origin |-> "none", d1 |-> Unbuilt, kv |-> Unbuilt, r2 |-> Unbuilt]

ZeroConfig == [APIToken |-> <<>>, AccountID |-> <<>>, BaseURL |-> <<>>, Timeout |-> 0]

\* No Cloudflare client is in use while the auth server is looked at.
NoClients ==
    /\ config = ZeroConfig
    /\ clients = NoneBuilt
    /\ calls = <<>>
    /\ getenv = {}
    /\ scope = [ns |-> <<>>, keys |-> {}, values |-> {}, exps |-> {}, docs |-> {},
                answers |-> {}, params |-> {}, objects |-> {}, types |-> {},
                metas |-> {}]
    /\ kvStore = {}
    /\ kvHist = <<>>
    /\ r2Store = {}
    /\ r2Hist = <<>>
    /\ last = [op |-> "none"]
    /\ openBodies = 0
    /\ streams = 0

clientVars == <<config, clients, calls, getenv, user, scope, kvStore, kvHist, r2Store,
                r2Hist, last, openBodies, streams>>

InitAuth ==
    /\ inbox \in [pending : {TRUE}, req : Requests, answer : Answers]
    /\ auth = [wrapper |-> "none", out |-> NoOutcome, accepted |-> {}]
    /\ user = NoUser
    /\ NoClients

\* What serving a request leaves in auth.  accepted is kept for the claims
\* only: the tokens the backend verifier has accepted so far; no code reads it.
Served(wrapper, out) ==
    [wrapper |-> wrapper, out |-> out,
     accepted |-> auth.accepted
                    \cup { out.events[i].token :
                             i \in { j \in 1..Len(out.events) :
                                        out.events[j].ev = "VerifyIDToken"
                                        /\ out.events[j].ok } }]

ServeAuthMiddleware ==
    /\ inbox.pending
    /\ auth' = Served("AuthMiddleware", AuthMiddleware(inbox.req, inbox.answer))
    /\ inbox' = [inbox EXCEPT !.pending = FALSE]
    /\ UNCHANGED clientVars

ServeRequireAuth ==
    /\ inbox.pending
    /\ auth' = Served("RequireAuth", RequireAuth(inbox.req, inbox.answer))
    /\ inbox' = [inbox EXCEPT !.pending = FALSE]
    /\ UNCHANGED clientVars

\* A handler registered without a wrapper: it runs on the request as is.
ServeUnwrapped ==
    /\ inbox.pending
    /\ auth' = Served("unwrapped",
                       [events |-> <<>>, backend |-> 0,
                        calls |-> <<NextHandler(inbox.req.ctx)>>,
                        resp |-> NextHandler(inbox.req.ctx).resp])
    /\ inbox' = [inbox EXCEPT !.pending = FALSE]
    /\ UNCHANGED clientVars

NextAuth == ServeAuthMiddleware \/ ServeRequireAuth \/ ServeUnwrapped

SpecAuth == InitAuth /\ [][NextAuth]_vars

\* The auth server over a run of requests: when one has been answered the
\* next arrives, with the answer the backend verifier will give for it, which
\* may differ from the answer it gave for the same token before.
RunHeaders ==
    { BearerPrefix \o <<"a">>, BearerPrefix \o <<"a", "a">>, BearerPrefix,
      <<"b", "e", "a", "r", "e", "r", " ", "a">>, <<"a">> }

RunRequests ==
    { [hasAuth |-> FALSE, authorization |-> <<>>, ctx |-> <<>>] }
    \cup { [hasAuth |-> TRUE, authorization |-> h, ctx |-> <<>>] : h \in RunHeaders }

RunAnswers == { [ok |-> FALSE, uid |-> <<>>], [ok |-> TRUE, uid |-> <<"u", "1">>] }

InitAuthRun ==
    /\ inbox \in [pending : {TRUE}, req : RunRequests, answer : RunAnswers]
    /\ auth = [wrapper |-> "none", out |-> NoOutcome, accepted |-> {}]
    /\ user = NoUser
    /\ NoClients

NextRequest ==
    /\ ~inbox.pending
    /\ inbox' \in [pending : {TRUE}, req : RunRequests, answer : RunAnswers]
    /\ auth' = [auth EXCEPT !.wrapper = "none", !.out = NoOutcome]
    /\ UNCHANGED clientVars

NextAuthRun == ServeAuthMiddleware \/ ServeRequireAuth \/ ServeUnwrapped \/ NextRequest

SpecAuthRun == InitAuthRun /\ [][NextAuthRun]_vars

(***************************************************************************)
(* cloudflare config                                                       *)
(***************************************************************************)
DefaultBaseURL == <<"https://api.cloudflare.com/client/v4">>
DefaultTimeoutSeconds == 30

NewConfig(apiToken, accountID) ==
    [APIToken |-> apiToken, AccountID |-> accountID,
     BaseURL |-> DefaultBaseURL, Timeout |-> DefaultTimeoutSeconds]

\* createHTTPClient: the http.Client of a client, of which the model keeps the
\* Timeout (seconds; zero means no timeout).
createHTTPClient(cfg) == [built |-> TRUE, timeout |-> cfg.Timeout]

\* A constructor is handed a pointer to the configuration: it returns the
\* client and leaves the configuration as the field config of its result.
WithBaseURL(cfg) ==
    IF cfg.BaseURL = <<>> THEN [cfg EXCEPT !.BaseURL = DefaultBaseURL] ELSE cfg


NewKVClient(cfg) ==
    [config |-> WithBaseURL(cfg), client |-> createHTTPClient(WithBaseURL(cfg))]

NewD1Client(cfg) ==
    [config |-> WithBaseURL(cfg), client |-> createHTTPClient(WithBaseURL(cfg))]

NewR2Client(cfg) ==
    [config |-> WithBaseURL(cfg), client |-> createHTTPClient(WithBaseURL(cfg))]

\* NewStorage builds the three clients on the one configuration, in the order
\* of the struct literal: D1, R2, KV.
NewStorage(cfg) ==
    LET AfterR2(d1, r2) ==
            [config |-> NewKVClient(r2.config).config, d1 |-> d1.client,
             r2 |-> r2.client, kv |-> NewKVClient(r2.config).client]
        AfterD1(d1) == AfterR2(d1, NewR2Client(d1.config))
    IN AfterD1(NewD1Client(cfg))


\* NewStorageFromEnv: the token and the account are what os.Getenv returned
\* (empty when the variable is not set); the literal sets no Timeout.
NewStorageFromEnv(apiToken, accountID) ==
    NewStorage([APIToken |-> apiToken, AccountID |-> accountID,
                BaseURL |-> DefaultBaseURL, Timeout |-> 0])

(***************************************************************************)
(* cloudflare: strings, URLs and fmt verbs                                 *)
(*                                                                         *)
(* A URL is a sequence of characters; a literal word without any URL       *)
(* delimiter in it ("accounts", the base URL, the account ID) is kept as   *)
(* one element.                                                            *)
(***************************************************************************)
Digits == <<"0", "1", "2", "3", "4", "5", "6", "7", "8", "9">>

\* fmt's %d of a natural number
RECURSIVE Itoa(_)
Itoa(n) == IF n < 10 THEN <<Digits[n + 1]>>
           ELSE Itoa(n \div 10) \o <<Digits[(n % 10) + 1]>>

IndexOf(s, c) ==
    LET at == {i \in 1..Len(s) : s[i] = c}
    IN IF at = {} THEN 0 ELSE CHOOSE i \in at : \A j \in at : i <= j

\* url.PathEscape: what it does to the characters keys are made of
EscapeChar(c) ==
    CASE c = "/" -> <<"%", "2", "F">>
      [] c = "?" -> <<"%", "3", "F">>
      [] c = "#" -> <<"%", "2", "3">>
      [] c = "%" -> <<"%", "2", "5">>
      [] OTHER   -> <<c>>

RECURSIVE PathEscape(_)
PathEscape(s) ==
    IF s = <<>> THEN <<>> ELSE EscapeChar(Head(s)) \o PathEscape(Tail(s))

\* url.QueryEscape: as PathEscape on these characters, and a space becomes "+"
QueryEscapeChar(c) == IF c = " " THEN <<"+">> ELSE EscapeChar(c)

RECURSIVE QueryEscape(_)
QueryEscape(s) ==
    IF s = <<>> THEN <<>> ELSE QueryEscapeChar(Head(s)) \o QueryEscape(Tail(s))

KVKeysURL(cfg, namespaceID) ==
    cfg.BaseURL \o <<"/", "accounts", "/">> \o cfg.AccountID
        \o <<"/", "storage", "/", "kv", "/", "namespaces", "/">> \o namespaceID
        \o <<"/", "keys">>

\* Mutant: the key goes into the path as it is, without url.PathEscape.
KVValuesURLUnescaped(cfg, namespaceID, key) ==
    cfg.BaseURL \o <<"/", "accounts", "/">> \o cfg.AccountID
        \o <<"/", "storage", "/", "kv", "/", "namespaces", "/">> \o namespaceID
        \o <<"/", "values", "/">> \o key

KVValuesURL(cfg, namespaceID, key) ==
    cfg.BaseURL \o <<"/", "accounts", "/">> \o cfg.AccountID
        \o <<"/", "storage", "/", "kv", "/", "namespaces", "/">> \o namespaceID
        \o <<"/", "values", "/">> \o PathEscape(key)

R2ObjectsURL(cfg, bucketName) ==
    cfg.BaseURL \o <<"/", "accounts", "/">> \o cfg.AccountID
        \o <<"/", "r2", "/", "buckets", "/">> \o bucketName
        \o <<"/", "objects">>

R2ObjectURL(cfg, bucketName, key) ==
    cfg.BaseURL \o <<"/", "accounts", "/">> \o cfg.AccountID
        \o <<"/", "r2", "/", "buckets", "/">> \o bucketName
        \o <<"/", "objects", "/">> \o key

(***************************************************************************)
(* net/http and net/url as the clients use them: the URL a request is      *)
(* created from is parsed (fragment, query, path; a malformed percent      *)
(* escape in the path is an error) and the path and query go on the wire.  *)
(***************************************************************************)
HexChars == {"0", "1", "2", "3", "4", "5", "6", "7", "8", "9", "F"}

CutBefore(s, c) == IF IndexOf(s, c) = 0 THEN s ELSE SubSeq(s, 1, IndexOf(s, c) - 1)
CutAfter(s, c) == IF IndexOf(s, c) = 0 THEN <<>> ELSE SubSeq(s, IndexOf(s, c) + 1, Len(s))

URLPath(u) == CutBefore(CutBefore(u, "#"), "?")
URLQuery(u) == CutAfter(CutBefore(u, "#"), "?")

BadEscape(path) ==
    \E i \in 1..Len(path) :
        /\ path[i] = "%"
        /\ ~(i + 2 <= Len(path) /\ path[i + 1] \in HexChars /\ path[i + 2] \in HexChars)

ParseURL(u) ==
    [bad |-> BadEscape(URLPath(u)), path |-> URLPath(u), query |-> URLQuery(u)]

(***************************************************************************)
(* The inputs of the cloudflare callers modelled.  The URLs they lead to    *)
(* are built and parsed once, and looked up afterwards (f @@ <<>> is f as   *)
(* an explicit table).                                                      *)
(***************************************************************************)
Configs == { NewConfig(<<"tok">>, <<"acct">>) }

\* The configurations a caller writes as a struct literal: fields it leaves
\* out are zero.
LiteralConfigs ==
    { [ZeroConfig EXCEPT !.APIToken = <<"tok">>, !.AccountID = <<"acct">>] }

\* What os.Getenv returns for CLOUDFLARE_API_TOKEN and for
\* CLOUDFLARE_ACCOUNT_ID: the empty string when the variable is not set.
EnvTokens == { <<>>, <<"tok">> }
EnvAccounts == { <<>>, <<"acct">> }

\* The configurations the clients can end up holding.
BuiltConfigs ==
    { NewStorage(c).config : c \in Configs \cup LiteralConfigs }
    \cup { NewStorageFromEnv(t, a).config : t \in EnvTokens, a \in EnvAccounts }
KVNamespaces == { <<"n">> }
KVKeys == { <<"a">>, <<"a", "?", "b">>, <<"a", "/", "b">>, <<"a", "%", "2", "F", "b">> }
NoExpiration == -1
Expirations == { NoExpiration, 60 }
KVKeyPairs == { S \in SUBSET KVKeys : Cardinality(S) = 2 }
KVPrefixes == { <<>>, <<"a">>, <<"a", "/">> }
R2Buckets == { <<"b">> }
R2Keys == { <<"o">>, <<"d", "/", "o">>, <<"o", "%">> }
R2Prefixes == { <<>>, <<"d">> }

Tabulated(table, x, value) == IF x \in DOMAIN table THEN table[x] ELSE value

KVValuesURLs ==
    [a \in BuiltConfigs \X KVNamespaces \X KVKeys |-> KVValuesURL(a[1], a[2], a[3])] @@ <<>>

ExpirationQuery(expiration) == <<"?", "expiration_ttl", "=">> \o Itoa(expiration)

ClientURLs ==
    { KVValuesURLs[a] : a \in DOMAIN KVValuesURLs }
    \cup { KVValuesURLs[a] \o ExpirationQuery(e) :
             a \in DOMAIN KVValuesURLs, e \in Expirations \ {NoExpiration} }
    \cup { KVKeysURL(c, n) : c \in BuiltConfigs, n \in KVNamespaces }
    \cup { KVKeysURL(c, n) \o <<"?", "prefix", "=">> \o QueryEscape(p) :
             c \in BuiltConfigs, n \in KVNamespaces, p \in KVPrefixes \ {<<>>} }
    \cup { R2ObjectURL(c, b, k) : c \in BuiltConfigs, b \in R2Buckets, k \in R2Keys }
    \cup { R2ObjectsURL(c, b) : c \in BuiltConfigs, b \in R2Buckets }
    \cup { R2ObjectsURL(c, b) \o <<"?", "prefix", "=">> \o p :
             c \in BuiltConfigs, b \in R2Buckets, p \in R2Prefixes \ {<<>>} }

ParsedURLs == [u \in ClientURLs |-> ParseURL(u)] @@ <<>>

NewRequest(method, u, headers, body) ==
    LET Parsed(parsed) ==
            IF parsed.bad
            THEN [err |-> <<"error creating request: ", "invalid URL escape">>,
                  req |-> [method |-> method, url |-> u, path |-> <<>>,
                           query |-> <<>>, headers |-> headers, body |-> body]]
            ELSE [err |-> NoErr,
                  req |-> [method |-> method, url |-> u, path |-> parsed.path,
                           query |-> parsed.query, headers |-> headers,
                           body |-> body]]
    IN Parsed(Tabulated(ParsedURLs, u, ParseURL(u)))

(***************************************************************************)
(* The Cloudflare KV REST service, which the clients talk to.  It is not   *)
(* part of the repository: it is the store the API documents, keyed by     *)
(* namespace and key as decoded from the request path.  An entry written   *)
(* with expiration_ttl expires later.                                      *)
(***************************************************************************)
RECURSIVE Split(_, _)
Split(s, c) ==
    IF IndexOf(s, c) = 0 THEN <<s>>
    ELSE <<SubSeq(s, 1, IndexOf(s, c) - 1)>> \o Split(SubSeq(s, IndexOf(s, c) + 1, Len(s)), c)

DecodeHex(a, b) ==
    CASE a = "2" /\ b = "F" -> "/"
      [] a = "3" /\ b = "F" -> "?"
      [] a = "2" /\ b = "3" -> "#"
      [] a = "2" /\ b = "5" -> "%"
      [] OTHER -> "\\x"

RECURSIVE Unescape(_)
Unescape(s) ==
    IF s = <<>> THEN <<>>
    ELSE IF s[1] = "%" /\ Len(s) >= 3
    THEN <<DecodeHex(s[2], s[3])>> \o Unescape(SubSeq(s, 4, Len(s)))
    ELSE <<s[1]>> \o Unescape(Tail(s))

\* The elements of a set in some order: the order a service lists them in.
SetToSeq(S) ==
    CHOOSE q \in [1..Cardinality(S) -> S] : {q[i] : i \in 1..Cardinality(S)} = S

\* The JSON envelope of an API response as the clients decode it: result is
\* absent, null, an array of items or a single object (kind), errors are
\* the messages of its error objects.
NoResult == [kind |-> "absent", items |-> <<>>]
Envelope(success, errors, result) ==
    [valid |-> TRUE, success |-> success, errors |-> errors, result |-> result]
JSONEnvelope(success) == Envelope(success, <<>>, NoResult)
NoJSON == [valid |-> FALSE, success |-> FALSE, errors |-> <<>>, result |-> NoResult]

Response(status, raw, json, headers) ==
    [status |-> status, raw |-> raw, json |-> json, headers |-> headers]

StatusNotFound == 404

KVLookup(store, ns, key) == {e \in store : e.ns = ns /\ e.key = key}

KVRoute(cfg, path) ==
    LET InNamespaces(segs) ==
            /\ Len(segs) >= 8
            /\ SubSeq(segs, 1, 6) = <<cfg.BaseURL, <<"accounts">>, cfg.AccountID,
                                      <<"storage">>, <<"kv">>, <<"namespaces">>>>
        Routed(segs, ns) ==
            IF ~InNamespaces(segs) \/ ns \notin KVNamespaces
            THEN [isValues |-> FALSE, isKeys |-> FALSE, ns |-> <<>>, key |-> <<>>]
            ELSE IF Len(segs) = 9 /\ segs[8] = <<"values">> /\ segs[9] # <<>>
            THEN [isValues |-> TRUE, isKeys |-> FALSE, ns |-> ns,
                  key |-> Unescape(segs[9])]
            ELSE IF Len(segs) = 8 /\ segs[8] = <<"keys">>
            THEN [isValues |-> FALSE, isKeys |-> TRUE, ns |-> ns, key |-> <<>>]
            ELSE [isValues |-> FALSE, isKeys |-> FALSE, ns |-> <<>>, key |-> <<>>]
        Segmented(segs) ==
            Routed(segs, IF Len(segs) >= 7 THEN Unescape(segs[7]) ELSE <<>>)
    IN Segmented(Split(path, "/"))

KVRoutes ==
    [a \in BuiltConfigs \X { ParsedURLs[u].path : u \in ClientURLs } |-> KVRoute(a[1], a[2])] @@ <<>>

KVKey(name, expiring) == [Name |-> name, Expiring |-> expiring]

QueryUnescapeChar(c) == IF c = "+" THEN " " ELSE c

KVServe(store, cfg, req) ==
    LET Listed(ns, prefix) ==
            {KVKey(e.key, e.ttl) :
                e \in {f \in store : f.ns = ns /\ HasPrefix(f.key, prefix)}}
        Prefix(raw) == Unescape([i \in 1..Len(raw) |-> QueryUnescapeChar(raw[i])])
        Found(route, found) ==
            IF route.isKeys
            THEN [store |-> store,
                  resp |-> Response(StatusOK, <<>>,
                               Envelope(TRUE, <<>>,
                                   [kind |-> "array",
                                    items |-> SetToSeq(Listed(route.ns,
                                        Prefix(IF HasPrefix(req.query,
                                                            <<"prefix", "=">>)
                                               THEN SubSeq(req.query, 3,
                                                           Len(req.query))
                                               ELSE <<>>)))]),
                               {})]
            ELSE IF ~route.isValues
            THEN [store |-> store,
                  resp |-> Response(StatusNotFound, <<>>, JSONEnvelope(FALSE), {})]
            ELSE IF req.method = "PUT"
            THEN [store |-> (store \ found)
                                \cup {[ns |-> route.ns, key |-> route.key,
                                       val |-> req.body,
                                       ttl |-> HasPrefix(req.query,
                                                         <<"expiration_ttl", "=">>)]},
                  resp |-> Response(StatusOK, <<>>, JSONEnvelope(TRUE), {})]
            ELSE IF req.method = "DELETE"
            THEN [store |-> store \ found,
                  resp |-> Response(StatusOK, <<>>, JSONEnvelope(TRUE), {})]
            ELSE IF found = {}
            THEN [store |-> store,
                  resp |-> Response(StatusNotFound, <<>>, JSONEnvelope(FALSE), {})]
            ELSE [store |-> store,
                  resp |-> Response(StatusOK, (CHOOSE e \in found : TRUE).val,
                                    NoJSON, {})]
        Routed(route) == Found(route, KVLookup(store, route.ns, route.key))
    IN Routed(Tabulated(KVRoutes, <<cfg, req.path>>, KVRoute(cfg, req.path)))

(***************************************************************************)
(* http.Header: canonical key -> values.  Add and Set canonicalise the     *)
(* key (textproto.CanonicalMIMEHeaderKey): the first letter and each       *)
(* letter after a hyphen in upper case, every other letter in lower case.  *)
(***************************************************************************)
UpperOf(c) ==
    CASE c = "u" -> "U" [] c = "s" -> "S" [] c = "e" -> "E" [] c = "r" -> "R"
      [] c = "a" -> "A" [] c = "b" -> "B"
      [] OTHER -> c

LowerOf(c) ==
    CASE c = "U" -> "u" [] c = "S" -> "s" [] c = "E" -> "e" [] c = "R" -> "r"
      [] c = "A" -> "a" [] c = "B" -> "b"
      [] OTHER -> c

\* A word kept as one element is in canonical form already; "X-Metadata-"
\* ends in a hyphen.
EndsInHyphen(c) == c \in {"-", "X-Metadata-"}

RECURSIVE CanonicalFrom(_, _)
CanonicalFrom(s, upper) ==
    IF s = <<>> THEN <<>>
    ELSE <<IF upper THEN UpperOf(s[1]) ELSE LowerOf(s[1])>>
         \o CanonicalFrom(Tail(s), EndsInHyphen(s[1]))

CanonicalMIMEHeaderKey(k) == CanonicalFrom(k, TRUE)

HeaderValues_(h, k) ==
    IF \E e \in h : e.k = k THEN (CHOOSE e \in h : e.k = k).vs ELSE <<>>

HeaderAdd(h, name, value) ==
    LET k == CanonicalMIMEHeaderKey(name)
    IN {e \in h : e.k # k} \cup {[k |-> k, vs |-> Append(HeaderValues_(h, k), value)]}

HeaderSet(h, name, value) ==
    LET k == CanonicalMIMEHeaderKey(name)
    IN {e \in h : e.k # k} \cup {[k |-> k, vs |-> <<value>>]}

(***************************************************************************)
(* http.Client.Do against a service: served is what the service does with  *)
(* the request when it gets it.  What goes wrong on the way is the input   *)
(* `fault`:                                                                *)
(*   none           the service answers                                    *)
(*   lost_request   transport error, the service never saw the request     *)
(*   lost_response  the service acted, then the transport failed (timeout) *)
(*   status500      the service answers 500 and does nothing               *)
(*   success_false  the service answers 200, success=false, does nothing   *)
(*   bad_json       the service acts; its 200 body is no JSON document     *)
(*   body_cut       the service acts; reading its body fails midway        *)
(***************************************************************************)
NoResponse == [status |-> 0, raw |-> <<>>, json |-> NoJSON, headers |-> {}, cut |-> FALSE]

TransportErr == <<"transport failure">>

Do(served, store, fault) ==
    LET answer == [status |-> served.resp.status, raw |-> served.resp.raw,
                   json |-> served.resp.json,
                   headers |-> {[k |-> CanonicalMIMEHeaderKey(e.k), vs |-> e.vs] :
                                   e \in served.resp.headers},
                   cut |-> FALSE]
    IN CASE fault = "lost_request" ->
              [err |-> TransportErr, got |-> FALSE, resp |-> NoResponse, store |-> store]
         [] fault = "lost_response" ->
              [err |-> TransportErr, got |-> FALSE, resp |-> NoResponse,
               store |-> served.store]
         [] fault = "status500" ->
              [err |-> NoErr, got |-> TRUE,
               resp |-> [NoResponse EXCEPT !.status = StatusInternalServerError],
               store |-> store]
         [] fault = "success_false" ->
              [err |-> NoErr, got |-> TRUE,
               resp |-> [NoResponse EXCEPT !.status = StatusOK,
                                           !.json = JSONEnvelope(FALSE)],
               store |-> store]
         [] fault = "bad_json" ->
              [err |-> NoErr, got |-> TRUE,
               resp |-> [answer EXCEPT !.json = NoJSON], store |-> served.store]
         [] fault = "body_cut" ->
              [err |-> NoErr, got |-> TRUE,
               resp |-> [answer EXCEPT !.cut = TRUE], store |-> served.store]
         [] OTHER ->
              [err |-> NoErr, got |-> TRUE, resp |-> answer, store |-> served.store]

(***************************************************************************)
(* cloudflare KVClient.  Each operation answers what the call returned     *)
(* (err, and the bytes of a read), the requests it issued, whether it left *)
(* a response body open, and the store as the service holds it afterwards. *)
(***************************************************************************)
\* Mutant: the token is sent without the "Bearer " scheme.
AuthHeaderBare(cfg) == HeaderAdd({}, <<"Authorization">>, cfg.APIToken)

AuthHeader(cfg) == HeaderAdd({}, <<"Authorization">>, <<"Bearer ">> \o cfg.APIToken)

KVResult(err, body, isNil, reqs, bodyOpen, store) ==
    [err |-> err, body |-> body, isNil |-> isNil, reqs |-> reqs,
     bodyOpen |-> bodyOpen, store |-> store]

\* Mutant: the success field of the envelope is not looked at.
KVEnvelopeErrNoSuccess(resp) ==
    IF resp.status # StatusOK
    THEN <<"unexpected status code: ">> \o Itoa(resp.status)
    ELSE IF resp.cut \/ ~resp.json.valid
    THEN <<"error decoding response: ", "invalid JSON">>
    ELSE NoErr

\* The tail WriteValue and DeleteValue share: status, envelope, success.
KVEnvelopeErr(resp) ==
    IF resp.status # StatusOK
    THEN <<"unexpected status code: ">> \o Itoa(resp.status)
    ELSE IF resp.cut \/ ~resp.json.valid
    THEN <<"error decoding response: ", "invalid JSON">>
    ELSE IF ~resp.json.success
    THEN <<"request was not successful">>
    ELSE NoErr

WriteValue(cfg, store, namespaceID, key, value, expiration, fault) ==
    LET Answered(nr, rt) ==
            IF nr.err # NoErr
            THEN KVResult(nr.err, <<>>, TRUE, <<>>, FALSE, store)
            ELSE IF rt.err # NoErr
            THEN KVResult(<<"error making request: ">> \o rt.err, <<>>, TRUE,
                          <<nr.req>>, FALSE, rt.store)
            ELSE KVResult(KVEnvelopeErr(rt.resp), <<>>, TRUE, <<nr.req>>, FALSE,
                          rt.store)
        Sent(nr) == Answered(nr, Do(KVServe(store, cfg, nr.req), store, fault))
        URLPathOf(base) ==
            IF expiration # NoExpiration THEN base \o ExpirationQuery(expiration)
            ELSE base
    IN Sent(NewRequest("PUT",
                       URLPathOf(Tabulated(KVValuesURLs, <<cfg, namespaceID, key>>,
                                           KVValuesURL(cfg, namespaceID, key))),
                       HeaderAdd(AuthHeader(cfg), <<"Content-Type">>,
                                 <<"application/octet-stream">>),
                       value))

\* Mutant: status 404 is not told apart from the other statuses.
ReadValueNoNotFound(cfg, store, namespaceID, key, fault) ==
    LET Answered(nr, rt) ==
            IF nr.err # NoErr
            THEN KVResult(nr.err, <<>>, TRUE, <<>>, FALSE, store)
            ELSE IF rt.err # NoErr
            THEN KVResult(<<"error making request: ">> \o rt.err, <<>>, TRUE,
                          <<nr.req>>, FALSE, rt.store)
            ELSE IF rt.resp.status # StatusOK
            THEN KVResult(<<"unexpected status code: ">> \o Itoa(rt.resp.status),
                          <<>>, TRUE, <<nr.req>>, FALSE, rt.store)
            ELSE IF rt.resp.cut
            THEN KVResult(<<"error reading response body: ", "unexpected EOF">>,
                          <<>>, TRUE, <<nr.req>>, FALSE, rt.store)
            ELSE KVResult(NoErr, rt.resp.raw, FALSE, <<nr.req>>, FALSE, rt.store)
        Sent(nr) == Answered(nr, Do(KVServe(store, cfg, nr.req), store, fault))
    IN Sent(NewRequest("GET",
                       Tabulated(KVValuesURLs, <<cfg, namespaceID, key>>,
                                 KVValuesURL(cfg, namespaceID, key)),
                       AuthHeader(cfg), <<>>))

ReadValue(cfg, store, namespaceID, key, fault) ==
    LET Answered(nr, rt) ==
            IF nr.err # NoErr
            THEN KVResult(nr.err, <<>>, TRUE, <<>>, FALSE, store)
            ELSE IF rt.err # NoErr
            THEN KVResult(<<"error making request: ">> \o rt.err, <<>>, TRUE,
                          <<nr.req>>, FALSE, rt.store)
            ELSE IF rt.resp.status = StatusNotFound
            THEN KVResult(<<"key not found: ">> \o key, <<>>, TRUE, <<nr.req>>,
                          FALSE, rt.store)
            ELSE IF rt.resp.status # StatusOK
            THEN KVResult(<<"unexpected status code: ">> \o Itoa(rt.resp.status),
                          <<>>, TRUE, <<nr.req>>, FALSE, rt.store)
            ELSE IF rt.resp.cut
            THEN KVResult(<<"error reading response body: ", "unexpected EOF">>,
                          <<>>, TRUE, <<nr.req>>, FALSE, rt.store)
            ELSE KVResult(NoErr, rt.resp.raw, FALSE, <<nr.req>>, FALSE, rt.store)
        Sent(nr) == Answered(nr, Do(KVServe(store, cfg, nr.req), store, fault))
    IN Sent(NewRequest("GET",
                       Tabulated(KVValuesURLs, <<cfg, namespaceID, key>>,
                                 KVValuesURL(cfg, namespaceID, key)),
                       AuthHeader(cfg), <<>>))

\* Mutant: a request that failed on the way is sent a second time.
DeleteValueRetrying(cfg, store, namespaceID, key, fault) ==
    LET Retried(nr, rt) ==
            IF rt.err # NoErr
            THEN KVResult(<<"error making request: ">> \o rt.err, <<>>, TRUE,
                          <<nr.req, nr.req>>, FALSE, rt.store)
            ELSE KVResult(KVEnvelopeErr(rt.resp), <<>>, TRUE, <<nr.req, nr.req>>,
                          FALSE, rt.store)
        Answered(nr, rt) ==
            IF nr.err # NoErr
            THEN KVResult(nr.err, <<>>, TRUE, <<>>, FALSE, store)
            ELSE IF rt.err # NoErr
            THEN Retried(nr, Do(KVServe(rt.store, cfg, nr.req), rt.store, "none"))
            ELSE KVResult(KVEnvelopeErr(rt.resp), <<>>, TRUE, <<nr.req>>, FALSE,
                          rt.store)
        Sent(nr) == Answered(nr, Do(KVServe(store, cfg, nr.req), store, fault))
    IN Sent(NewRequest("DELETE",
                       Tabulated(KVValuesURLs, <<cfg, namespaceID, key>>,
                                 KVValuesURL(cfg, namespaceID, key)),
                       AuthHeader(cfg), <<>>))

DeleteValue(cfg, store, namespaceID, key, fault) ==
    LET Answered(nr, rt) ==
            IF nr.err # NoErr
            THEN KVResult(nr.err, <<>>, TRUE, <<>>, FALSE, store)
            ELSE IF rt.err # NoErr
            THEN KVResult(<<"error making request: ">> \o rt.err, <<>>, TRUE,
                          <<nr.req>>, FALSE, rt.store)
            ELSE KVResult(KVEnvelopeErr(rt.resp), <<>>, TRUE, <<nr.req>>, FALSE,
                          rt.store)
        Sent(nr) == Answered(nr, Do(KVServe(store, cfg, nr.req), store, fault))
    IN Sent(NewRequest("DELETE",
                       Tabulated(KVValuesURLs, <<cfg, namespaceID, key>>,
                                 KVValuesURL(cfg, namespaceID, key)),
                       AuthHeader(cfg), <<>>))

KVListed(err, keys, isNil, reqs, bodyOpen, store) ==
    [err |-> err, keys |-> keys, isNil |-> isNil, reqs |-> reqs,
     bodyOpen |-> bodyOpen, store |-> store]

ListKeys(cfg, store, namespaceID, prefix, fault) ==
    LET Answered(nr, rt) ==
            IF nr.err # NoErr
            THEN KVListed(nr.err, <<>>, TRUE, <<>>, FALSE, store)
            ELSE IF rt.err # NoErr
            THEN KVListed(<<"error making request: ">> \o rt.err, <<>>, TRUE,
                          <<nr.req>>, FALSE, rt.store)
            ELSE IF rt.resp.status # StatusOK
            THEN KVListed(<<"unexpected status code: ">> \o Itoa(rt.resp.status),
                          <<>>, TRUE, <<nr.req>>, FALSE, rt.store)
            ELSE IF \/ rt.resp.cut
                    \/ ~rt.resp.json.valid
                    \/ rt.resp.json.result.kind = "object"
            THEN KVListed(<<"error decoding response: ", "invalid JSON">>, <<>>,
                          TRUE, <<nr.req>>, FALSE, rt.store)
            ELSE IF ~rt.resp.json.success
            THEN KVListed(<<"request was not successful">>, <<>>, TRUE,
                          <<nr.req>>, FALSE, rt.store)
            ELSE KVListed(NoErr, rt.resp.json.result.items,
                          rt.resp.json.result.kind # "array", <<nr.req>>, FALSE,
                          rt.store)
        Sent(nr) == Answered(nr, Do(KVServe(store, cfg, nr.req), store, fault))
        URLPathOf(base) ==
            IF prefix # <<>>
            THEN base \o <<"?", "prefix", "=">> \o QueryEscape(prefix)
            ELSE base
    IN Sent(NewRequest("GET", URLPathOf(KVKeysURL(cfg, namespaceID)),
                       AuthHeader(cfg), <<>>))

(***************************************************************************)
(* encoding/json as WriteJSON and ReadJSON use it.  A Go value is a tagged  *)
(* tuple; a string is a sequence of bytes or characters, among them a byte  *)
(* that is no valid UTF-8 and the replacement character U+FFFD; a map is a  *)
(* set of <<key, value>> pairs.  JSON text is a sequence of characters with *)
(* the literals null, true and false kept as one element each.              *)
(***************************************************************************)
GoNil == <<"nil">>
GoBool(b) == <<"bool", b>>
GoFloat(n) == <<"float64", n>>
GoString(s) == <<"string", s>>
GoSlice(elems) == <<"slice", elems>>
GoMap(pairs) == <<"map", pairs>>
GoChan == <<"chan">>

InvalidByte == "0xFF"
ReplacementChar == "U+FFFD"

\* The bytes strings are made of, in byte order (map keys are written sorted).
ByteOrder == <<"\"", "\\", "a", "j", "k", ReplacementChar, InvalidByte>>

ByteRank(c) == CHOOSE i \in 1..Len(ByteOrder) : ByteOrder[i] = c

RECURSIVE LexLess(_, _)
LexLess(a, b) ==
    IF b = <<>> THEN FALSE
    ELSE IF a = <<>> THEN TRUE
    ELSE IF a[1] = b[1] THEN LexLess(Tail(a), Tail(b))
    ELSE ByteRank(a[1]) < ByteRank(b[1])

\* The encoder writes an invalid byte as the escape \ufffd.
QuoteChar(c) ==
    CASE c = "\"" -> <<"\\", "\"">>
      [] c = "\\" -> <<"\\", "\\">>
      [] c = InvalidByte -> <<"\\", "u", "f", "f", "f", "d">>
      [] OTHER -> <<c>>

RECURSIVE QuoteChars(_)
QuoteChars(s) == IF s = <<>> THEN <<>> ELSE QuoteChar(s[1]) \o QuoteChars(Tail(s))

Quote(s) == <<"\"">> \o QuoteChars(s) \o <<"\"">>

Encoded(data) == [ok |-> TRUE, data |-> data]
Unsupported == [ok |-> FALSE, data |-> <<>>]

RECURSIVE Encode(_)
RECURSIVE EncodeElems(_)
RECURSIVE EncodeMembers(_)
Encode(x) ==
    CASE x[1] = "nil" -> Encoded(<<"null">>)
      [] x[1] = "bool" -> Encoded(<<IF x[2] THEN "true" ELSE "false">>)
      [] x[1] = "float64" -> Encoded(Itoa(x[2]))
      [] x[1] = "string" -> Encoded(Quote(x[2]))
      [] x[1] = "slice" ->
            LET e == EncodeElems(x[2])
            IN IF e.ok THEN Encoded(<<"[">> \o e.data \o <<"]">>) ELSE Unsupported
      [] x[1] = "map" ->
            LET e == EncodeMembers(x[2])
            IN IF e.ok THEN Encoded(<<"{">> \o e.data \o <<"}">>) ELSE Unsupported
      [] OTHER -> Unsupported

EncodeElems(xs) ==
    IF xs = <<>> THEN Encoded(<<>>)
    ELSE LET h == Encode(xs[1])
             t == EncodeElems(Tail(xs))
         IN IF h.ok /\ t.ok
            THEN Encoded(h.data \o (IF Len(xs) > 1 THEN <<",">> ELSE <<>>) \o t.data)
            ELSE Unsupported

EncodeMembers(pairs) ==
    IF pairs = {} THEN Encoded(<<>>)
    ELSE LET first == CHOOSE p \in pairs : \A q \in pairs \ {p} : LexLess(p[1], q[1])
             h == Encode(first[2])
             t == EncodeMembers(pairs \ {first})
         IN IF h.ok /\ t.ok
            THEN Encoded(Quote(first[1]) \o <<":">> \o h.data
                         \o (IF pairs = {first} THEN <<>> ELSE <<",">>) \o t.data)
            ELSE Unsupported

Marshal(x) ==
    LET e == Encode(x)
    IN IF e.ok THEN [err |-> NoErr, data |-> e.data]
       ELSE [err |-> <<"json: unsupported type">>, data |-> <<>>]

IsDigit(c) == \E i \in 1..Len(Digits) : Digits[i] = c
DigitVal(c) == (CHOOSE i \in 1..Len(Digits) : Digits[i] = c) - 1

Failed == [ok |-> FALSE, val |-> GoNil, rest |-> <<>>]
Parsed(v, rest) == [ok |-> TRUE, val |-> v, rest |-> rest]

\* The characters of a string literal after its opening quote.  The decoder
\* replaces invalid UTF-8 by U+FFFD.
RECURSIVE ScanString(_, _)
ScanString(s, acc) ==
    IF s = <<>> THEN Failed
    ELSE IF s[1] = "\"" THEN Parsed(acc, Tail(s))
    ELSE IF s[1] = "\\"
    THEN IF Len(s) >= 2 /\ s[2] \in {"\"", "\\"}
         THEN ScanString(SubSeq(s, 3, Len(s)), Append(acc, s[2]))
         ELSE IF Len(s) >= 6 /\ SubSeq(s, 2, 6) = <<"u", "f", "f", "f", "d">>
         THEN ScanString(SubSeq(s, 7, Len(s)), Append(acc, ReplacementChar))
         ELSE Failed
    ELSE IF s[1] = InvalidByte
    THEN ScanString(Tail(s), Append(acc, ReplacementChar))
    ELSE IF s[1] \in {"null", "true", "false"} THEN Failed
    ELSE ScanString(Tail(s), Append(acc, s[1]))

RECURSIVE ScanNumber(_, _)
ScanNumber(s, n) ==
    IF s # <<>> /\ IsDigit(s[1])
    THEN ScanNumber(Tail(s), 10 * n + DigitVal(s[1]))
    ELSE Parsed(GoFloat(n), s)

RECURSIVE Decode(_)
RECURSIVE DecodeElems(_, _)
RECURSIVE DecodeMembers(_, _)
Decode(s) ==
    IF s = <<>> THEN Failed
    ELSE CASE s[1] = "null" -> Parsed(GoNil, Tail(s))
           [] s[1] = "true" -> Parsed(GoBool(TRUE), Tail(s))
           [] s[1] = "false" -> Parsed(GoBool(FALSE), Tail(s))
           [] IsDigit(s[1]) ->
                 IF s[1] = "0" /\ Len(s) >= 2 /\ IsDigit(s[2]) THEN Failed
                 ELSE ScanNumber(s, 0)
           [] s[1] = "\"" ->
                 LET r == ScanString(Tail(s), <<>>)
                 IN IF r.ok THEN Parsed(GoString(r.val), r.rest) ELSE Failed
           [] s[1] = "[" ->
                 IF Len(s) >= 2 /\ s[2] = "]"
                 THEN Parsed(GoSlice(<<>>), SubSeq(s, 3, Len(s)))
                 ELSE DecodeElems(Tail(s), <<>>)
           [] s[1] = "{" ->
                 IF Len(s) >= 2 /\ s[2] = "}"
                 THEN Parsed(GoMap({}), SubSeq(s, 3, Len(s)))
                 ELSE DecodeMembers(Tail(s), {})
           [] OTHER -> Failed

DecodeElems(s, acc) ==
    LET v == Decode(s)
    IN IF ~v.ok \/ v.rest = <<>> THEN Failed
       ELSE IF v.rest[1] = "," THEN DecodeElems(Tail(v.rest), Append(acc, v.val))
       ELSE IF v.rest[1] = "]" THEN Parsed(GoSlice(Append(acc, v.val)), Tail(v.rest))
       ELSE Failed

\* A member named as an earlier one replaces it.
DecodeMembers(s, acc) ==
    IF s = <<>> \/ s[1] # "\"" THEN Failed
    ELSE LET k == ScanString(Tail(s), <<>>)
         IN IF ~k.ok \/ k.rest = <<>> \/ k.rest[1] # ":" THEN Failed
            ELSE LET v == Decode(Tail(k.rest))
                     put == {p \in acc : p[1] # k.val} \cup {<<k.val, v.val>>}
                 IN IF ~v.ok \/ v.rest = <<>> THEN Failed
                    ELSE IF v.rest[1] = "," THEN DecodeMembers(Tail(v.rest), put)
                    ELSE IF v.rest[1] = "}" THEN Parsed(GoMap(put), Tail(v.rest))
                    ELSE Failed

(***************************************************************************)
(* json.Unmarshal(data, target).  A target is what the pointer handed to    *)
(* ReadJSON points at: an interface{} (any JSON value replaces what it      *)
(* holds), a string, or a map[string]interface{} (the members of a JSON     *)
(* object are stored into the map it already is; null empties it).  What    *)
(* does not fit the target is an error and leaves it alone.                 *)
(***************************************************************************)
Target(kind, val) == [kind |-> kind, val |-> val]

Unmarshaled(err, target) == [err |-> err, target |-> target]

Unmarshal(data, target) ==
    LET Decoded(d) ==
            IF ~d.ok \/ d.rest # <<>>
            THEN Unmarshaled(<<"invalid character">>, target)
            ELSE IF target.kind = "iface"
            THEN Unmarshaled(NoErr, Target("iface", d.val))
            ELSE IF d.val = GoNil
            THEN Unmarshaled(NoErr,
                             IF target.kind = "map" THEN Target("map", GoMap({}))
                             ELSE target)
            ELSE IF target.kind = "string" /\ d.val[1] = "string"
            THEN Unmarshaled(NoErr, Target("string", d.val))
            ELSE IF target.kind = "map" /\ d.val[1] = "map"
            THEN Unmarshaled(NoErr,
                     Target("map",
                            GoMap({p \in target.val[2] :
                                       \A q \in d.val[2] : q[1] # p[1]}
                                  \cup d.val[2])))
            ELSE Unmarshaled(<<"json: cannot unmarshal into Go value">>, target)
    IN Decoded(Decode(data))

JSONResult(err, target, reqs, bodyOpen, store) ==
    [err |-> err, target |-> target, reqs |-> reqs, bodyOpen |-> bodyOpen,
     store |-> store]

WriteJSON(cfg, store, namespaceID, key, value, expiration, fault) ==
    LET Marshaled(m) ==
            IF m.err # NoErr
            THEN KVResult(<<"error encoding value to JSON: ">> \o m.err, <<>>, TRUE,
                          <<>>, FALSE, store)
            ELSE WriteValue(cfg, store, namespaceID, key, m.data, expiration, fault)
    IN Marshaled(Marshal(value))

\* Mutant: the error of ReadValue is wrapped like a decoding error.
ReadJSONWrappingReadError(cfg, store, namespaceID, key, target, fault) ==
    LET Decoded(r, u) ==
            IF r.err # NoErr
            THEN JSONResult(<<"error decoding JSON value: ">> \o r.err, target, r.reqs,
                            r.bodyOpen, r.store)
            ELSE IF u.err # NoErr
            THEN JSONResult(<<"error decoding JSON value: ">> \o u.err, target,
                            r.reqs, r.bodyOpen, r.store)
            ELSE JSONResult(NoErr, u.target, r.reqs, r.bodyOpen, r.store)
        Read(r) == Decoded(r, Unmarshal(r.body, target))
    IN Read(ReadValue(cfg, store, namespaceID, key, fault))

\* Mutant: the value is decoded into a copy, the target is left as it was.
ReadJSONIntoCopy(cfg, store, namespaceID, key, target, fault) ==
    LET Decoded(r, u) ==
            IF r.err # NoErr
            THEN JSONResult(r.err, target, r.reqs, r.bodyOpen, r.store)
            ELSE IF u.err # NoErr
            THEN JSONResult(<<"error decoding JSON value: ">> \o u.err, target,
                            r.reqs, r.bodyOpen, r.store)
            ELSE JSONResult(NoErr, target, r.reqs, r.bodyOpen, r.store)
        Read(r) == Decoded(r, Unmarshal(r.body, target))
    IN Read(ReadValue(cfg, store, namespaceID, key, fault))

ReadJSON(cfg, store, namespaceID, key, target, fault) ==
    LET Decoded(r, u) ==
            IF r.err # NoErr
            THEN JSONResult(r.err, target, r.reqs, r.bodyOpen, r.store)
            ELSE IF u.err # NoErr
            THEN JSONResult(<<"error decoding JSON value: ">> \o u.err, target,
                            r.reqs, r.bodyOpen, r.store)
            ELSE JSONResult(NoErr, u.target, r.reqs, r.bodyOpen, r.store)
        Read(r) == Decoded(r, Unmarshal(r.body, target))
    IN Read(ReadValue(cfg, store, namespaceID, key, fault))

(***************************************************************************)
(* cloudflare D1Client.  The source holds two versions of ExecuteQuery: the *)
(* one that decodes "result" as a list of D1ResponseItem and returns its    *)
(* first element, and the one that decodes it as one *D1Result and returns  *)
(* that pointer.  What the D1 service answers is an input of the call.      *)
(***************************************************************************)
D1QueryURL(cfg, databaseID) ==
    cfg.BaseURL \o <<"/", "accounts", "/">> \o cfg.AccountID
        \o <<"/", "d1", "/", "database", "/">> \o databaseID \o <<"/", "query">>

\* params is a []interface{}: nil, or a list.
Params(isNil, elems) == [nil |-> isNil, elems |-> elems]

\* Mutant: "params" is left out for a nil list only, so an empty list is sent
\* as an empty JSON list.
D1RequestBodyParamsUnlessNil(query, params) ==
    <<"{", "sql", ":">> \o query
        \o (IF ~params.nil
            THEN <<",", "params", ":", "[">> \o params.elems \o <<"]">>
            ELSE <<>>)
        \o <<"}">>

\* The request body: "params" is there when the list has elements.
D1RequestBody(query, params) ==
    <<"{", "sql", ":">> \o query
        \o (IF ~params.nil /\ Len(params.elems) > 0
            THEN <<",", "params", ":", "[">> \o params.elems \o <<"]">>
            ELSE <<>>)
        \o <<"}">>

D1Item(success, rows, changes) == [success |-> success, rows |-> rows, changes |-> changes]
ZeroItem == D1Item(FALSE, <<>>, 0)

D1Returned(err, isNil, item, reqs, bodyOpen) ==
    [err |-> err, isNil |-> isNil, item |-> item, reqs |-> reqs, bodyOpen |-> bodyOpen]

D1Headers(cfg) ==
    HeaderSet(HeaderSet({}, <<"Content-Type">>, <<"application/json">>),
              <<"Authorization">>, <<"Bearer ">> \o cfg.APIToken)

\* Mutant: the last element of the result list is returned.
ExecuteQueryLastItem(cfg, store, databaseID, query, params, answer, fault) ==
    LET Answered(nr, rt) ==
            IF nr.err # NoErr
            THEN D1Returned(nr.err, TRUE, ZeroItem, <<>>, FALSE)
            ELSE IF rt.err # NoErr
            THEN D1Returned(<<"error making request: ">> \o rt.err, TRUE, ZeroItem,
                            <<nr.req>>, FALSE)
            ELSE IF rt.resp.status # StatusOK
            THEN D1Returned(<<"unexpected status code: ">> \o Itoa(rt.resp.status)
                                \o <<", body: ">>
                                \o (IF rt.resp.cut THEN <<>> ELSE rt.resp.raw),
                            TRUE, ZeroItem, <<nr.req>>, FALSE)
            ELSE IF \/ rt.resp.cut
                    \/ ~rt.resp.json.valid
                    \/ rt.resp.json.result.kind = "object"
            THEN D1Returned(<<"error decoding response: ", "invalid JSON">>, TRUE,
                            ZeroItem, <<nr.req>>, FALSE)
            ELSE IF ~rt.resp.json.success
            THEN D1Returned(IF Len(rt.resp.json.errors) > 0
                            THEN <<"request was not successful", ": ">>
                                     \o rt.resp.json.errors[1]
                            ELSE <<"request was not successful">>,
                            TRUE, ZeroItem, <<nr.req>>, FALSE)
            ELSE IF Len(rt.resp.json.result.items) = 0
            THEN D1Returned(<<"empty result set">>, TRUE, ZeroItem, <<nr.req>>,
                            FALSE)
            ELSE D1Returned(NoErr, FALSE, rt.resp.json.result.items[Len(rt.resp.json.result.items)], <<nr.req>>,
                            FALSE)
    IN Answered(NewRequest("POST", D1QueryURL(cfg, databaseID), D1Headers(cfg),
                           D1RequestBody(query, params)),
                Do([store |-> store, resp |-> answer], store, fault))

\* Mutant: the first error message of the envelope is not reported.
ExecuteQueryGenericError(cfg, store, databaseID, query, params, answer, fault) ==
    LET Answered(nr, rt) ==
            IF nr.err # NoErr
            THEN D1Returned(nr.err, TRUE, ZeroItem, <<>>, FALSE)
            ELSE IF rt.err # NoErr
            THEN D1Returned(<<"error making request: ">> \o rt.err, TRUE, ZeroItem,
                            <<nr.req>>, FALSE)
            ELSE IF rt.resp.status # StatusOK
            THEN D1Returned(<<"unexpected status code: ">> \o Itoa(rt.resp.status)
                                \o <<", body: ">>
                                \o (IF rt.resp.cut THEN <<>> ELSE rt.resp.raw),
                            TRUE, ZeroItem, <<nr.req>>, FALSE)
            ELSE IF \/ rt.resp.cut
                    \/ ~rt.resp.json.valid
                    \/ rt.resp.json.result.kind = "object"
            THEN D1Returned(<<"error decoding response: ", "invalid JSON">>, TRUE,
                            ZeroItem, <<nr.req>>, FALSE)
            ELSE IF ~rt.resp.json.success
            THEN D1Returned(<<"request was not successful">>, TRUE, ZeroItem,
                            <<nr.req>>, FALSE)
            ELSE IF Len(rt.resp.json.result.items) = 0
            THEN D1Returned(<<"empty result set">>, TRUE, ZeroItem, <<nr.req>>,
                            FALSE)
            ELSE D1Returned(NoErr, FALSE, rt.resp.json.result.items[1], <<nr.req>>,
                            FALSE)
    IN Answered(NewRequest("POST", D1QueryURL(cfg, databaseID), D1Headers(cfg),
                           D1RequestBody(query, params)),
                Do([store |-> store, resp |-> answer], store, fault))

ExecuteQuery(cfg, store, databaseID, query, params, answer, fault) ==
    LET Answered(nr, rt) ==
            IF nr.err # NoErr
            THEN D1Returned(nr.err, TRUE, ZeroItem, <<>>, FALSE)
            ELSE IF rt.err # NoErr
            THEN D1Returned(<<"error making request: ">> \o rt.err, TRUE, ZeroItem,
                            <<nr.req>>, FALSE)
            ELSE IF rt.resp.status # StatusOK
            THEN D1Returned(<<"unexpected status code: ">> \o Itoa(rt.resp.status)
                                \o <<", body: ">>
                                \o (IF rt.resp.cut THEN <<>> ELSE rt.resp.raw),
                            TRUE, ZeroItem, <<nr.req>>, FALSE)
            ELSE IF \/ rt.resp.cut
                    \/ ~rt.resp.json.valid
                    \/ rt.resp.json.result.kind = "object"
            THEN D1Returned(<<"error decoding response: ", "invalid JSON">>, TRUE,
                            ZeroItem, <<nr.req>>, FALSE)
            ELSE IF ~rt.resp.json.success
            THEN D1Returned(IF Len(rt.resp.json.errors) > 0
                            THEN <<"request was not successful", ": ">>
                                     \o rt.resp.json.errors[1]
                            ELSE <<"request was not successful">>,
                            TRUE, ZeroItem, <<nr.req>>, FALSE)
            ELSE IF Len(rt.resp.json.result.items) = 0
            THEN D1Returned(<<"empty result set">>, TRUE, ZeroItem, <<nr.req>>,
                            FALSE)
            ELSE D1Returned(NoErr, FALSE, rt.resp.json.result.items[1], <<nr.req>>,
                            FALSE)
    IN Answered(NewRequest("POST", D1QueryURL(cfg, databaseID), D1Headers(cfg),
                           D1RequestBody(query, params)),
                Do([store |-> store, resp |-> answer], store, fault))

ExecuteQueryD1Result(cfg, store, databaseID, query, params, answer, fault) ==
    LET Answered(nr, rt) ==
            IF nr.err # NoErr
            THEN D1Returned(nr.err, TRUE, ZeroItem, <<>>, FALSE)
            ELSE IF rt.err # NoErr
            THEN D1Returned(<<"error making request: ">> \o rt.err, TRUE, ZeroItem,
                            <<nr.req>>, FALSE)
            ELSE IF rt.resp.status # StatusOK
            THEN D1Returned(<<"unexpected status code: ">> \o Itoa(rt.resp.status),
                            TRUE, ZeroItem, <<nr.req>>, FALSE)
            ELSE IF \/ rt.resp.cut
                    \/ ~rt.resp.json.valid
                    \/ rt.resp.json.result.kind = "array"
            THEN D1Returned(<<"error decoding response: ", "invalid JSON">>, TRUE,
                            ZeroItem, <<nr.req>>, FALSE)
            ELSE IF ~rt.resp.json.success
            THEN D1Returned(<<"request was not successful">>, TRUE, ZeroItem,
                            <<nr.req>>, FALSE)
            ELSE IF rt.resp.json.result.kind = "object"
            THEN D1Returned(NoErr, FALSE, rt.resp.json.result.items[1], <<nr.req>>,
                            FALSE)
            ELSE D1Returned(NoErr, TRUE, ZeroItem, <<nr.req>>, FALSE)
    IN Answered(NewRequest("POST", D1QueryURL(cfg, databaseID),
                           HeaderAdd(AuthHeader(cfg), <<"Content-Type">>,
                                     <<"application/json">>),
                           D1RequestBody(query, params)),
                Do([store |-> store, resp |-> answer], store, fault))

(***************************************************************************)
(* The R2 REST service, which R2Client talks to.  It is not part of the     *)
(* repository: it keeps each object with its body and with the             *)
(* X-Metadata-* and Content-Type headers of the upload as it received them, *)
(* and sends those headers back with the object.                            *)
(***************************************************************************)
MetadataPrefix == <<"X-Metadata-">>

RECURSIVE Join(_, _)
Join(segs, sep) ==
    IF segs = <<>> THEN <<>>
    ELSE IF Len(segs) = 1 THEN segs[1]
    ELSE segs[1] \o <<sep>> \o Join(Tail(segs), sep)

R2Object(key, size) == [Key |-> key, Size |-> size]
ZeroR2Object == R2Object(<<>>, 0)

R2Route(cfg, path) ==
    LET Segmented(segs) ==
            IF ~(/\ Len(segs) >= 7
                 /\ SubSeq(segs, 1, 5) = <<cfg.BaseURL, <<"accounts">>,
                                           cfg.AccountID, <<"r2">>, <<"buckets">>>>
                 /\ segs[6] \in R2Buckets
                 /\ segs[7] = <<"objects">>)
            THEN [kind |-> "none", bucket |-> <<>>, key |-> <<>>]
            ELSE IF Len(segs) = 7
            THEN [kind |-> "list", bucket |-> segs[6], key |-> <<>>]
            ELSE [kind |-> "object", bucket |-> segs[6],
                  key |-> Unescape(Join(SubSeq(segs, 8, Len(segs)), "/"))]
    IN Segmented(Split(path, "/"))

R2Routes ==
    [a \in BuiltConfigs \X { ParsedURLs[u].path : u \in ClientURLs } |-> R2Route(a[1], a[2])] @@ <<>>

R2Lookup(store, bucket, key) == {o \in store : o.bucket = bucket /\ o.key = key}

R2Serve(store, cfg, req) ==
    LET Listed(bucket, prefix) ==
            {R2Object(o.key, Len(o.body)) :
                o \in {p \in store : p.bucket = bucket /\ HasPrefix(p.key, prefix)}}
        Found(route, found) ==
            IF \/ route.kind = "none"
               \/ (route.kind = "object" /\ route.key = <<>>)
            THEN [store |-> store,
                  resp |-> Response(StatusNotFound, <<>>, JSONEnvelope(FALSE), {})]
            ELSE IF route.kind = "list"
            THEN [store |-> store,
                  resp |-> Response(StatusOK, <<>>,
                               Envelope(TRUE, <<>>,
                                   [kind |-> "array",
                                    items |-> SetToSeq(Listed(route.bucket,
                                        IF HasPrefix(req.query, <<"prefix", "=">>)
                                        THEN SubSeq(req.query, 3, Len(req.query))
                                        ELSE <<>>))]),
                               {})]
            ELSE IF req.method = "PUT"
            THEN [store |-> (store \ found)
                                \cup {[bucket |-> route.bucket, key |-> route.key,
                                       body |-> req.body,
                                       headers |->
                                           {e \in req.headers :
                                               \/ HasPrefix(e.k, MetadataPrefix)
                                               \/ e.k = <<"Content-Type">>}]},
                  resp |-> Response(StatusOK, <<>>,
                               Envelope(TRUE, <<>>,
                                   [kind |-> "object",
                                    items |-> <<R2Object(route.key,
                                                         Len(req.body))>>]),
                               {})]
            ELSE IF found = {}
            THEN [store |-> store,
                  resp |-> Response(StatusNotFound, <<>>, JSONEnvelope(FALSE), {})]
            ELSE IF req.method = "DELETE"
            THEN [store |-> store \ found,
                  resp |-> Response(StatusOK, <<>>, JSONEnvelope(TRUE), {})]
            ELSE [store |-> store,
                  resp |-> Response(StatusOK, (CHOOSE o \in found : TRUE).body,
                                    NoJSON, (CHOOSE o \in found : TRUE).headers)]
        Routed(route) == Found(route, R2Lookup(store, route.bucket, route.key))
    IN Routed(Tabulated(R2Routes, <<cfg, req.path>>, R2Route(cfg, req.path)))

(***************************************************************************)
(* cloudflare R2Client.  A map[string]string is nil or a set of <<key,      *)
(* value>> pairs; order is the order in which `range` visits the pairs of   *)
(* the metadata map, which Go leaves open.                                  *)
(***************************************************************************)
StringMap(isNil, pairs) == [nil |-> isNil, pairs |-> pairs]
NilMap == StringMap(TRUE, {})

NilStream == [nil |-> TRUE, data |-> <<>>]

R2Returned(err, isNil, object, list, stream, metadata, reqs, bodyOpen, store) ==
    [err |-> err, isNil |-> isNil, object |-> object, list |-> list,
     stream |-> stream, metadata |-> metadata, reqs |-> reqs,
     bodyOpen |-> bodyOpen, store |-> store]

R2Failed(err, reqs, store) ==
    R2Returned(err, TRUE, ZeroR2Object, <<>>, NilStream, NilMap, reqs, FALSE, store)

\* Mutant: the headers are put with Header.Set, so an entry replaces the
\* header an earlier entry wrote under the same name.
RECURSIVE AddMetadataWithSet(_, _)
AddMetadataWithSet(h, order) ==
    IF order = <<>> THEN h
    ELSE AddMetadataWithSet(HeaderSet(h, MetadataPrefix \o order[1][1], order[1][2]),
                            Tail(order))

RECURSIVE AddMetadata(_, _)
AddMetadata(h, order) ==
    IF order = <<>> THEN h
    ELSE AddMetadata(HeaderAdd(h, MetadataPrefix \o order[1][1], order[1][2]),
                     Tail(order))

ListObjects(cfg, store, bucketName, prefix, fault) ==
    LET Answered(nr, rt) ==
            IF nr.err # NoErr THEN R2Failed(nr.err, <<>>, store)
            ELSE IF rt.err # NoErr
            THEN R2Failed(<<"error making request: ">> \o rt.err, <<nr.req>>,
                          rt.store)
            ELSE IF rt.resp.status # StatusOK
            THEN R2Failed(<<"unexpected status code: ">> \o Itoa(rt.resp.status),
                          <<nr.req>>, rt.store)
            ELSE IF \/ rt.resp.cut
                    \/ ~rt.resp.json.valid
                    \/ rt.resp.json.result.kind = "object"
            THEN R2Failed(<<"error decoding response: ", "invalid JSON">>,
                          <<nr.req>>, rt.store)
            ELSE IF ~rt.resp.json.success
            THEN R2Failed(<<"request was not successful">>, <<nr.req>>, rt.store)
            ELSE R2Returned(NoErr, rt.resp.json.result.kind # "array",
                            ZeroR2Object, rt.resp.json.result.items, NilStream,
                            NilMap, <<nr.req>>, FALSE, rt.store)
        Sent(nr) == Answered(nr, Do(R2Serve(store, cfg, nr.req), store, fault))
        URLOf(base) ==
            IF prefix # <<>> THEN base \o <<"?", "prefix", "=">> \o prefix ELSE base
    IN Sent(NewRequest("GET", URLOf(R2ObjectsURL(cfg, bucketName)),
                       AuthHeader(cfg), <<>>))

UploadObject(cfg, store, bucketName, key, data, contentType, metadata, order, fault) ==
    LET Answered(nr, rt) ==
            IF nr.err # NoErr THEN R2Failed(nr.err, <<>>, store)
            ELSE IF rt.err # NoErr
            THEN R2Failed(<<"error making request: ">> \o rt.err, <<nr.req>>,
                          rt.store)
            ELSE IF rt.resp.status # StatusOK
            THEN R2Failed(<<"unexpected status code: ">> \o Itoa(rt.resp.status),
                          <<nr.req>>, rt.store)
            ELSE IF \/ rt.resp.cut
                    \/ ~rt.resp.json.valid
                    \/ rt.resp.json.result.kind = "array"
            THEN R2Failed(<<"error decoding response: ", "invalid JSON">>,
                          <<nr.req>>, rt.store)
            ELSE IF ~rt.resp.json.success
            THEN R2Failed(<<"request was not successful">>, <<nr.req>>, rt.store)
            ELSE R2Returned(NoErr, FALSE,
                            IF rt.resp.json.result.kind = "object"
                            THEN rt.resp.json.result.items[1] ELSE ZeroR2Object,
                            <<>>, NilStream, NilMap, <<nr.req>>, FALSE, rt.store)
        Sent(nr) == Answered(nr, Do(R2Serve(store, cfg, nr.req), store, fault))
        WithMetadata(typed) ==
            IF ~metadata.nil THEN AddMetadata(typed, order) ELSE typed
        WithContentType(authorized) ==
            IF contentType # <<>>
            THEN HeaderAdd(authorized, <<"Content-Type">>, contentType)
            ELSE authorized
    IN Sent(NewRequest("PUT", R2ObjectURL(cfg, bucketName, key),
                       WithMetadata(WithContentType(AuthHeader(cfg))), data))

\* Mutant: the body is not closed when the status is not 200.
GetObjectLeavingBodyOpen(cfg, store, bucketName, key, fault) ==
    LET Metadata(headers) ==
            {<<TrimPrefix(e.k, MetadataPrefix), e.vs[1]>> :
                e \in {h \in headers : HasPrefix(h.k, MetadataPrefix)}}
        Answered(nr, rt) ==
            IF nr.err # NoErr THEN R2Failed(nr.err, <<>>, store)
            ELSE IF rt.err # NoErr
            THEN R2Failed(<<"error making request: ">> \o rt.err, <<nr.req>>,
                          rt.store)
            ELSE IF rt.resp.status # StatusOK
            THEN R2Returned(<<"unexpected status code: ">> \o Itoa(rt.resp.status),
                            TRUE, ZeroR2Object, <<>>, NilStream, NilMap,
                            <<nr.req>>, TRUE, rt.store)
            ELSE R2Returned(NoErr, FALSE, ZeroR2Object, <<>>,
                            [nil |-> FALSE, data |-> rt.resp.raw],
                            StringMap(FALSE, Metadata(rt.resp.headers)),
                            <<nr.req>>, TRUE, rt.store)
        Sent(nr) == Answered(nr, Do(R2Serve(store, cfg, nr.req), store, fault))
    IN Sent(NewRequest("GET", R2ObjectURL(cfg, bucketName, key), AuthHeader(cfg),
                       <<>>))

GetObject(cfg, store, bucketName, key, fault) ==
    LET Metadata(headers) ==
            {<<TrimPrefix(e.k, MetadataPrefix), e.vs[1]>> :
                e \in {h \in headers : HasPrefix(h.k, MetadataPrefix)}}
        Answered(nr, rt) ==
            IF nr.err # NoErr THEN R2Failed(nr.err, <<>>, store)
            ELSE IF rt.err # NoErr
            THEN R2Failed(<<"error making request: ">> \o rt.err, <<nr.req>>,
                          rt.store)
            ELSE IF rt.resp.status # StatusOK
            THEN R2Failed(<<"unexpected status code: ">> \o Itoa(rt.resp.status),
                          <<nr.req>>, rt.store)
            ELSE R2Returned(NoErr, FALSE, ZeroR2Object, <<>>,
                            [nil |-> FALSE, data |-> rt.resp.raw],
                            StringMap(FALSE, Metadata(rt.resp.headers)),
                            <<nr.req>>, TRUE, rt.store)
        Sent(nr) == Answered(nr, Do(R2Serve(store, cfg, nr.req), store, fault))
    IN Sent(NewRequest("GET", R2ObjectURL(cfg, bucketName, key), AuthHeader(cfg),
                       <<>>))

\* Mutant: a 404 counts as success, the object being gone either way.
DeleteObjectIdempotent(cfg, store, bucketName, key, fault) ==
    LET Answered(nr, rt) ==
            IF nr.err # NoErr THEN R2Failed(nr.err, <<>>, store)
            ELSE IF rt.err # NoErr
            THEN R2Failed(<<"error making request: ">> \o rt.err, <<nr.req>>,
                          rt.store)
            ELSE IF rt.resp.status \notin {StatusOK, StatusNotFound}
            THEN R2Failed(<<"unexpected status code: ">> \o Itoa(rt.resp.status),
                          <<nr.req>>, rt.store)
            ELSE R2Returned(NoErr, TRUE, ZeroR2Object, <<>>, NilStream, NilMap,
                            <<nr.req>>, FALSE, rt.store)
        Sent(nr) == Answered(nr, Do(R2Serve(store, cfg, nr.req), store, fault))
    IN Sent(NewRequest("DELETE", R2ObjectURL(cfg, bucketName, key),
                       AuthHeader(cfg), <<>>))

DeleteObject(cfg, store, bucketName, key, fault) ==
    LET Answered(nr, rt) ==
            IF nr.err # NoErr THEN R2Failed(nr.err, <<>>, store)
            ELSE IF rt.err # NoErr
            THEN R2Failed(<<"error making request: ">> \o rt.err, <<nr.req>>,
                          rt.store)
            ELSE IF rt.resp.status # StatusOK
            THEN R2Failed(<<"unexpected status code: ">> \o Itoa(rt.resp.status),
                          <<nr.req>>, rt.store)
            ELSE R2Returned(NoErr, TRUE, ZeroR2Object, <<>>, NilStream, NilMap,
                            <<nr.req>>, FALSE, rt.store)
        Sent(nr) == Answered(nr, Do(R2Serve(store, cfg, nr.req), store, fault))
    IN Sent(NewRequest("DELETE", R2ObjectURL(cfg, bucketName, key),
                       AuthHeader(cfg), <<>>))

(***************************************************************************)
(* The callers of the clients.  scope holds what the callers of one run     *)
(* pass: the KV namespace, keys, raw values and expirations, the Go values  *)
(* written as JSON, the answers of the D1 service and the query parameters, *)
(* the R2 object keys, content types and metadata maps.  kvHist is what the *)
(* callers know of each key: "never" (no write was attempted), "written"    *)
(* (the last mutation attempted was a WriteValue that returned nil; val is  *)
(* what it wrote), "expiring" (the same, written with an expiration),       *)
(* "deleted" (it was a DeleteValue that returned nil), "unknown" (it        *)
(* returned an error).                                                      *)
(***************************************************************************)
KVRawValues == { <<>>, <<"h", "i">> }

WriteFaults == {"none", "lost_request", "lost_response", "status500",
                "success_false", "bad_json", "body_cut"}
ReadFaults == {"none", "lost_request", "status500", "body_cut"}

NoDoc == <<"none">>
NoTarget == Target("none", GoNil)

\* doc is the Go value a WriteJSON wrote, NoDoc after any other mutation.
Hist(st, val) == [st |-> st, val |-> val, doc |-> NoDoc]

NoCall == [op |-> "none"]

\* No request is being served while the clients are looked at.
NoAuth ==
    /\ inbox = [pending |-> FALSE,
                req |-> [hasAuth |-> FALSE, authorization |-> <<>>, ctx |-> <<>>],
                answer |-> [ok |-> FALSE, uid |-> <<>>]]
    /\ auth = [wrapper |-> "none", out |-> NoOutcome, accepted |-> {}]

\* What the callers know of an R2 object: as kvHist, with the data and the
\* metadata map of the last UploadObject that returned nil.
R2Hist(st, data, meta) == [st |-> st, data |-> data, meta |-> meta]

\* The clients the callers of the client models use: the three of
\* NewStorage(NewConfig(...)).
StorageClients(origin, storage) ==
    [origin |-> origin, d1 |-> storage.d1, kv |-> storage.kv, r2 |-> storage.r2]

InitClients ==
    /\ NoAuth
    /\ config \in Configs
    /\ clients = StorageClients("NewConfig", NewStorage(config))
    /\ calls = <<>>
    /\ getenv = {}
    /\ user = NoUser
    /\ kvStore = {}
    /\ r2Store = {}
    /\ last = NoCall
    /\ openBodies = 0
    /\ streams = 0

InitHist ==
    /\ kvHist = [k \in scope.keys |-> Hist("never", <<>>)]
    /\ r2Hist = [k \in scope.objects |-> R2Hist("never", <<>>, NilMap)]

NoScope ==
    [ns |-> <<>>, keys |-> {}, values |-> {}, exps |-> {}, docs |-> {},
     answers |-> {}, params |-> {}, objects |-> {}, types |-> {}, metas |-> {}]

InitKV ==
    /\ InitClients
    /\ scope \in {[NoScope EXCEPT !.ns = ns, !.keys = keys, !.values = KVRawValues,
                                  !.exps = Expirations] :
                      ns \in KVNamespaces, keys \in KVKeyPairs}
    /\ InitHist

Call(op, key, val, exp, fault, res) ==
    [op |-> op, ns |-> scope.ns, key |-> key, val |-> val, exp |-> exp,
     fault |-> fault, doc |-> NoDoc, target |-> NoTarget,
     res |-> [err |-> res.err, body |-> res.body, isNil |-> res.isNil,
              reqs |-> res.reqs, bodyOpen |-> res.bodyOpen, target |-> NoTarget]]

Returned(res) ==
    /\ kvStore' = res.store
    /\ openBodies' = openBodies + (IF res.bodyOpen THEN 1 ELSE 0)
    /\ UNCHANGED <<config, clients, calls, getenv, user, scope, r2Store, r2Hist, streams, inbox, auth>>

KVWrite ==
    \E key \in scope.keys, value \in scope.values, exp \in scope.exps,
       fault \in WriteFaults :
        \E res \in {WriteValue(config, kvStore, scope.ns, key, value, exp, fault)} :
           /\ last' = Call("WriteValue", key, value, exp, fault, res)
           /\ kvHist' = [kvHist EXCEPT ![key] =
                            IF res.err = NoErr /\ exp = NoExpiration
                            THEN Hist("written", value)
                            ELSE IF res.err = NoErr
                            THEN Hist("expiring", value)
                            ELSE Hist("unknown", <<>>)]
           /\ Returned(res)

KVRead ==
    \E key \in scope.keys, fault \in ReadFaults :
        \E res \in {ReadValue(config, kvStore, scope.ns, key, fault)} :
           /\ last' = Call("ReadValue", key, <<>>, NoExpiration, fault, res)
           /\ UNCHANGED kvHist
           /\ Returned(res)

KVDelete ==
    \E key \in scope.keys, fault \in WriteFaults :
        \E res \in {DeleteValue(config, kvStore, scope.ns, key, fault)} :
           /\ last' = Call("DeleteValue", key, <<>>, NoExpiration, fault, res)
           /\ kvHist' = [kvHist EXCEPT ![key] =
                            IF res.err = NoErr THEN Hist("deleted", <<>>)
                            ELSE Hist("unknown", <<>>)]
           /\ Returned(res)

\* The service drops an entry written with expiration_ttl once the time is up.
KVExpire ==
    \E e \in kvStore :
        /\ e.ttl
        /\ kvStore' = kvStore \ {e}
        /\ UNCHANGED <<config, clients, calls, getenv, user, scope, last, kvHist, r2Store, r2Hist, openBodies, streams,
                       inbox, auth>>

KVList ==
    \E prefix \in KVPrefixes, fault \in WriteFaults :
        \E res \in {ListKeys(config, kvStore, scope.ns, prefix, fault)} :
           /\ last' = [op |-> "ListKeys", ns |-> scope.ns, prefix |-> prefix,
                       fault |-> fault,
                       res |-> [err |-> res.err, keys |-> res.keys,
                                isNil |-> res.isNil, reqs |-> res.reqs,
                                bodyOpen |-> res.bodyOpen]]
           /\ UNCHANGED kvHist
           /\ Returned(res)

NextKV == KVWrite \/ KVRead \/ KVDelete \/ KVExpire

SpecKV == InitKV /\ [][NextKV]_vars

\* Callers whose namespace ID holds a character that delimits a part of a
\* URL; the service has the namespace n only.
NamespaceIDs ==
    { <<"n">>, <<"n", "/", "x">>, <<"n", "?", "x">>, <<"n", "#", "x">> }

InitKVNamespaces ==
    /\ InitClients
    /\ scope \in {[NoScope EXCEPT !.ns = ns, !.keys = {<<"a">>, <<"a", "/", "b">>},
                                  !.values = {<<"h", "i">>},
                                  !.exps = Expirations \cup {0}] :
                      ns \in NamespaceIDs}
    /\ InitHist

NextKVNamespaces == KVWrite \/ KVRead \/ KVDelete \/ KVList \/ KVExpire

SpecKVNamespaces == InitKVNamespaces /\ [][NextKVNamespaces]_vars

(***************************************************************************)
(* The callers of WriteJSON and ReadJSON: one key, written as JSON or raw.  *)
(***************************************************************************)
JSONDocs ==
    { GoNil, GoBool(TRUE), GoFloat(7), GoFloat(10),
      GoString(<<>>), GoString(<<"a", "\"">>), GoString(<<"\\">>),
      GoString(<<ReplacementChar>>), GoString(<<InvalidByte>>),
      GoSlice(<<>>), GoSlice(<<GoNil, GoString(<<"a">>)>>),
      GoMap({}),
      GoMap({<<<<"k">>, GoFloat(1)>>, <<<<"j">>, GoSlice(<<GoBool(FALSE)>>)>>}),
      GoMap({<<<<"k">>, GoString(<<"a", InvalidByte>>)>>}),
      GoChan }

JSONTargets ==
    { Target("iface", GoNil), Target("string", GoString(<<>>)),
      Target("map", GoMap({})), Target("map", GoMap({<<<<"a">>, GoBool(TRUE)>>})) }

JSONWriteFaults == {"none", "lost_response"}
JSONReadFaults == {"none", "lost_request", "status500"}

InitKVJSON ==
    /\ InitClients
    /\ scope \in {[NoScope EXCEPT !.ns = ns, !.keys = {k}, !.values = {<<"h", "i">>},
                                  !.exps = Expirations, !.docs = JSONDocs] :
                      ns \in KVNamespaces, k \in KVKeys}
    /\ InitHist

KVWriteJSON ==
    \E key \in scope.keys, x \in scope.docs, exp \in scope.exps,
       fault \in JSONWriteFaults :
        \E res \in {WriteJSON(config, kvStore, scope.ns, key, x, exp, fault)} :
           /\ last' = [Call("WriteJSON", key, <<>>, exp, fault, res) EXCEPT !.doc = x]
           /\ kvHist' = [kvHist EXCEPT ![key] =
                            IF res.err = NoErr
                            THEN [st |-> IF exp = NoExpiration THEN "written"
                                         ELSE "expiring",
                                  val |-> Marshal(x).data, doc |-> x]
                            ELSE IF res.reqs = <<>> THEN @
                            ELSE Hist("unknown", <<>>)]
           /\ Returned(res)

KVReadJSON ==
    \E key \in scope.keys, target \in JSONTargets, fault \in JSONReadFaults :
        \E res \in {ReadJSON(config, kvStore, scope.ns, key, target, fault)} :
           /\ last' = [op |-> "ReadJSON", ns |-> scope.ns, key |-> key, val |-> <<>>,
                       exp |-> NoExpiration, fault |-> fault, doc |-> NoDoc,
                       target |-> target,
                       res |-> [err |-> res.err, body |-> <<>>, isNil |-> TRUE,
                                reqs |-> res.reqs, bodyOpen |-> res.bodyOpen,
                                target |-> res.target]]
           /\ UNCHANGED kvHist
           /\ Returned(res)

NextKVJSON == KVWriteJSON \/ KVReadJSON \/ KVWrite \/ KVDelete \/ KVExpire

SpecKVJSON == InitKVJSON /\ [][NextKVJSON]_vars

(***************************************************************************)
(* The callers of the D1 client and what the D1 service answers them.      *)
(***************************************************************************)
D1Items == { ZeroItem, D1Item(TRUE, <<"row1", "row2">>, 0), D1Item(TRUE, <<>>, 1) }

D1Results ==
    { NoResult, [kind |-> "null", items |-> <<>>], [kind |-> "array", items |-> <<>>] }
    \cup { [kind |-> "array", items |-> <<i>>] : i \in D1Items }
    \cup { [kind |-> "array", items |-> <<i, ZeroItem>>] : i \in D1Items }
    \cup { [kind |-> "object", items |-> <<i>>] : i \in D1Items }

D1Errors == { <<>>, << <<"no such table">> >>, << <<"no such table">>, <<"locked">> >> }

D1Answers ==
    { Response(StatusOK, <<>>, Envelope(TRUE, <<>>, result), {}) :
         result \in D1Results }
    \cup { Response(StatusOK, <<>>, Envelope(FALSE, errs, NoResult), {}) :
             errs \in D1Errors }
    \cup { Response(StatusOK, <<>>,
                    Envelope(FALSE, << <<"locked">> >>,
                             [kind |-> "array", items |-> <<ZeroItem>>]), {}),
           Response(StatusOK, <<"<html>">>, NoJSON, {}),
           Response(StatusInternalServerError, <<"oops">>, NoJSON, {}),
           Response(StatusNotFound, <<>>, Envelope(FALSE, <<>>, NoResult), {}) }

D1Params == { Params(TRUE, <<>>), Params(FALSE, <<>>), Params(FALSE, <<"1", "x">>) }
D1Faults == {"none", "lost_request", "body_cut"}
DatabaseIDs == { <<"db">> }
Queries == { <<"SELECT 1">> }

InitD1 ==
    /\ InitClients
    /\ scope = [NoScope EXCEPT !.answers = D1Answers, !.params = D1Params]
    /\ InitHist

D1Call(op, databaseID, query, params, answer, fault, res) ==
    /\ last' = [op |-> op, databaseID |-> databaseID, query |-> query,
                params |-> params, answer |-> answer, fault |-> fault, res |-> res]
    /\ openBodies' = openBodies + (IF res.bodyOpen THEN 1 ELSE 0)
    /\ UNCHANGED <<config, clients, calls, getenv, user, scope, kvStore, kvHist, r2Store, r2Hist, streams, inbox,
                   auth>>

D1Query ==
    \E databaseID \in DatabaseIDs, query \in Queries, params \in scope.params,
       answer \in scope.answers, fault \in D1Faults :
        \E res \in {ExecuteQuery(config, kvStore, databaseID, query, params,
                                  answer, fault)} :
           D1Call("ExecuteQuery", databaseID, query, params, answer, fault, res)

D1QueryD1Result ==
    \E databaseID \in DatabaseIDs, query \in Queries, params \in scope.params,
       answer \in scope.answers, fault \in D1Faults :
        \E res \in {ExecuteQueryD1Result(config, kvStore, databaseID, query,
                                          params, answer, fault)} :
           D1Call("ExecuteQueryD1Result", databaseID, query, params, answer,
                  fault, res)

NextD1 == D1Query \/ D1QueryD1Result

SpecD1 == InitD1 /\ [][NextD1]_vars

(***************************************************************************)
(* The callers of the R2 client.  A stream GetObject returned stays with    *)
(* its caller until the caller closes it.                                   *)
(***************************************************************************)
MaxStreams == 2

R2Data == <<"x", "y">>
ContentTypes == { <<>>, <<"text/plain">> }
R2Metadata ==
    { NilMap, StringMap(FALSE, {}),
      StringMap(FALSE, {<< <<"u", "s", "e", "r">>, <<"john">> >>}),
      StringMap(FALSE, {<< <<"U", "s", "e", "r">>, <<"john">> >>}),
      StringMap(FALSE, {<< <<"u", "s", "e", "r">>, <<"john">> >>,
                        << <<"U", "S", "E", "R">>, <<"jane">> >>}),
      StringMap(FALSE, {<< <<"a", "-", "b">>, <<"john">> >>}) }
R2Faults == {"none", "lost_request", "lost_response", "status500",
             "success_false", "bad_json", "body_cut"}

\* The orders in which `range` may visit the pairs of a map.
Orders(pairs) ==
    {o \in [1..Cardinality(pairs) -> pairs] :
        {o[i] : i \in 1..Cardinality(pairs)} = pairs}

InitR2 ==
    /\ InitClients
    /\ scope \in {[NoScope EXCEPT !.objects = {k}, !.types = ContentTypes,
                                  !.metas = R2Metadata] : k \in R2Keys}
    /\ InitHist

R2Call(op, key, data, contentType, metadata, order, prefix, fault, res) ==
    /\ last' = [op |-> op, key |-> key, data |-> data, contentType |-> contentType,
                metadata |-> metadata, order |-> order, prefix |-> prefix,
                fault |-> fault,
                res |-> [err |-> res.err, isNil |-> res.isNil,
                         object |-> res.object, list |-> res.list,
                         stream |-> res.stream, metadata |-> res.metadata,
                         reqs |-> res.reqs, bodyOpen |-> res.bodyOpen]]
    /\ r2Store' = res.store
    /\ openBodies' = openBodies + (IF res.bodyOpen THEN 1 ELSE 0)
    /\ streams' = streams + (IF res.stream.nil THEN 0 ELSE 1)
    /\ UNCHANGED <<config, clients, calls, getenv, user, scope, kvStore, kvHist, inbox, auth>>

R2Upload ==
    \E bucketName \in R2Buckets, key \in scope.objects,
       contentType \in scope.types, metadata \in scope.metas, fault \in R2Faults :
        \E order \in Orders(metadata.pairs) :
            \E res \in {UploadObject(config, r2Store, bucketName, key, R2Data,
                                      contentType, metadata, order, fault)} :
               /\ R2Call("UploadObject", key, R2Data, contentType, metadata, order,
                         <<>>, fault, res)
               /\ r2Hist' = [r2Hist EXCEPT ![key] =
                                IF res.err = NoErr
                                THEN R2Hist("uploaded", R2Data, metadata)
                                ELSE R2Hist("unknown", <<>>, NilMap)]

R2Get ==
    /\ streams < MaxStreams
    /\ \E bucketName \in R2Buckets, key \in scope.objects, fault \in R2Faults :
           \E res \in {GetObject(config, r2Store, bucketName, key, fault)} :
              /\ R2Call("GetObject", key, <<>>, <<>>, NilMap, <<>>, <<>>, fault, res)
              /\ UNCHANGED r2Hist

R2Delete ==
    \E bucketName \in R2Buckets, key \in scope.objects, fault \in R2Faults :
        \E res \in {DeleteObject(config, r2Store, bucketName, key, fault)} :
           /\ R2Call("DeleteObject", key, <<>>, <<>>, NilMap, <<>>, <<>>, fault, res)
           /\ r2Hist' = [r2Hist EXCEPT ![key] =
                            IF res.err = NoErr
                            THEN R2Hist("deleted", <<>>, NilMap)
                            ELSE R2Hist("unknown", <<>>, NilMap)]

R2List ==
    \E bucketName \in R2Buckets, prefix \in R2Prefixes, fault \in R2Faults :
        \E res \in {ListObjects(config, r2Store, bucketName, prefix, fault)} :
           /\ R2Call("ListObjects", <<>>, <<>>, <<>>, NilMap, <<>>, prefix, fault,
                     res)
           /\ UNCHANGED r2Hist

\* The caller closes one of the streams it holds.
CloseStream ==
    /\ streams > 0
    /\ streams' = streams - 1
    /\ openBodies' = openBodies - 1
    /\ UNCHANGED <<config, clients, calls, getenv, user, scope, kvStore, kvHist, r2Store, r2Hist, last, inbox,
                   auth>>

NextR2 == R2Upload \/ R2Get \/ R2Delete \/ R2List \/ CloseStream

SpecR2 == InitR2 /\ [][NextR2]_vars

(***************************************************************************)
(* All the clients in use by one program, on one configuration.             *)
(***************************************************************************)
ClientDocs == { GoString(<<"h", "i">>), GoChan }
ClientAnswers ==
    { Response(StatusOK, <<>>,
               Envelope(TRUE, <<>>, [kind |-> "array", items |-> <<ZeroItem>>]), {}),
      Response(StatusOK, <<>>, Envelope(TRUE, <<>>, NoResult), {}),
      Response(StatusInternalServerError, <<"oops">>, NoJSON, {}) }

InitAllClients ==
    /\ InitClients
    /\ scope = [ns |-> <<"n">>, keys |-> {<<"a">>}, values |-> {<<"h", "i">>},
                exps |-> {NoExpiration}, docs |-> ClientDocs,
                answers |-> ClientAnswers, params |-> {Params(TRUE, <<>>)},
                objects |-> {<<"o">>}, types |-> {<<>>},
                metas |-> {StringMap(FALSE, {<< <<"u", "s", "e", "r">>, <<"john">> >>})}]
    /\ InitHist

NextAllClients ==
    \/ KVWrite \/ KVRead \/ KVDelete \/ KVList \/ KVWriteJSON \/ KVReadJSON
    \/ D1Query \/ D1QueryD1Result
    \/ R2Upload \/ R2Get \/ R2Delete \/ R2List \/ CloseStream

SpecAllClients == InitAllClients /\ [][NextAllClients]_vars

(***************************************************************************)
(* The constructors: the program makes a configuration (NewConfig, or a    *)
(* struct literal of its own), hands it to NewD1Client, NewKVClient,       *)
(* NewR2Client or NewStorage, and calls the methods of the clients it has  *)
(* built; or it calls NewStorageFromEnv, which makes the configuration     *)
(* itself.  clients.origin tells who made the configuration.               *)
(***************************************************************************)


InitConfig ==
    /\ NoAuth
    /\ \/ config \in Configs /\ clients = [NoneBuilt EXCEPT !.origin = "NewConfig"]
       \/ config \in LiteralConfigs /\ clients = [NoneBuilt EXCEPT !.origin = "literal"]
       \/ config = ZeroConfig /\ clients = NoneBuilt
    /\ scope = [ns |-> <<"n">>, keys |-> {<<"a">>}, values |-> {<<"h", "i">>},
                exps |-> {NoExpiration}, docs |-> {},
                answers |-> {CHOOSE a \in D1Answers : a.status = StatusOK},
                params |-> {Params(TRUE, <<>>)},
                objects |-> {<<"o">>}, types |-> {<<>>}, metas |-> {NilMap}]
    /\ calls = <<>>
    /\ getenv = {}
    /\ user = NoUser
    /\ kvStore = {}
    /\ r2Store = {}
    /\ last = NoCall
    /\ openBodies = 0
    /\ streams = 0
    /\ InitHist

\* Mutant: every constructor looks the two variables up.
GetenvByAny(constructor) == {"CLOUDFLARE_API_TOKEN", "CLOUDFLARE_ACCOUNT_ID"}

\* The environment variables a constructor passes to os.Getenv.
GetenvBy(constructor) ==
    IF constructor = "NewStorageFromEnv"
    THEN {"CLOUDFLARE_API_TOKEN", "CLOUDFLARE_ACCOUNT_ID"}
    ELSE {}

Constructed(constructor, cfg, cl) ==
    /\ config' = cfg
    /\ clients' = cl
    /\ getenv' = getenv \cup GetenvBy(constructor)
    /\ UNCHANGED <<calls, user, scope, kvStore, kvHist, r2Store, r2Hist, last, openBodies,
                   streams, inbox, auth>>

BuildD1 ==
    /\ clients.origin # "none"
    /\ ~clients.d1.built
    /\ \E made \in {NewD1Client(config)} :
           Constructed("NewD1Client", made.config,
                       [clients EXCEPT !.d1 = made.client])

BuildKV ==
    /\ clients.origin # "none"
    /\ ~clients.kv.built
    /\ \E made \in {NewKVClient(config)} :
           Constructed("NewKVClient", made.config,
                       [clients EXCEPT !.kv = made.client])

BuildR2 ==
    /\ clients.origin # "none"
    /\ ~clients.r2.built
    /\ \E made \in {NewR2Client(config)} :
           Constructed("NewR2Client", made.config,
                       [clients EXCEPT !.r2 = made.client])

BuildStorage ==
    /\ clients.origin # "none"
    /\ ~clients.d1.built /\ ~clients.kv.built /\ ~clients.r2.built
    /\ \E made \in {NewStorage(config)} :
           Constructed("NewStorage", made.config,
                       StorageClients(clients.origin, made))

\* The two values are what os.Getenv returns for the two variables.
BuildStorageFromEnv ==
    /\ clients.origin = "none"
    /\ \E apiToken \in EnvTokens, accountID \in EnvAccounts :
           \E made \in {NewStorageFromEnv(apiToken, accountID)} :
               Constructed("NewStorageFromEnv", made.config,
                           StorageClients("NewStorageFromEnv", made))

\* The methods of a client can be called once the client is built.
KVMethods == clients.kv.built /\ (KVWrite \/ KVRead \/ KVDelete \/ KVList)

D1Methods == clients.d1.built /\ (D1Query \/ D1QueryD1Result)

R2Methods ==
    clients.r2.built /\ (R2Upload \/ R2Get \/ R2Delete \/ R2List \/ CloseStream)

NextConfig ==
    \/ BuildD1 \/ BuildKV \/ BuildR2 \/ BuildStorage \/ BuildStorageFromEnv
    \/ KVMethods \/ D1Methods \/ R2Methods

SpecConfig == InitConfig /\ [][NextConfig]_vars

(***************************************************************************)
(* Concurrent callers: goroutines calling methods of the same clients.     *)
(* A method reads r.config twice before it sends anything (BaseURL and     *)
(* AccountID for the URL, APIToken for the header), the service handles    *)
(* the request in one step, and the method returns.  What a call has read, *)
(* its request and its result are locals of the call.                      *)
(***************************************************************************)
Callers == {1, 2}

Idle == [pc |-> "idle"]

ConcurrentOps ==
    {"WriteValue", "ReadValue", "DeleteValue", "ExecuteQuery", "UploadObject",
     "DeleteObject"}

ConcurrentFaults == {"none", "lost_response"}

\* Mutant: the method blanks the account in the shared configuration while
\* it builds its URL.
ConfigAfterReadMarking(cfg) == [cfg EXCEPT !.AccountID = <<>>]

\* What a method leaves in the configuration it reads: r.config is only read.
ConfigAfterRead(cfg) == cfg

\* The method call run to its end on the configuration fields it has read,
\* against the stores as they are when the service handles the request.
Invoke(cfg, kv, r2, call, fault) ==
    LET KVDone(r) == [res |-> r, kv |-> r.store, r2 |-> r2]
        R2Done(r) == [res |-> r, kv |-> kv, r2 |-> r.store]
        D1Done(r) == [res |-> r, kv |-> kv, r2 |-> r2]
    IN CASE call.op = "WriteValue" ->
                KVDone(WriteValue(cfg, kv, scope.ns, call.key, call.val,
                                  NoExpiration, fault))
         [] call.op = "ReadValue" ->
                KVDone(ReadValue(cfg, kv, scope.ns, call.key, fault))
         [] call.op = "DeleteValue" ->
                KVDone(DeleteValue(cfg, kv, scope.ns, call.key, fault))
         [] call.op = "ExecuteQuery" ->
                D1Done(ExecuteQuery(cfg, kv, <<"db">>, <<"SELECT 1">>,
                                    Params(TRUE, <<>>), call.answer, fault))
         [] call.op = "UploadObject" ->
                R2Done(UploadObject(cfg, r2, <<"b">>, call.key, call.val, <<>>,
                                    NilMap, <<>>, fault))
         [] call.op = "DeleteObject" ->
                R2Done(DeleteObject(cfg, r2, <<"b">>, call.key, fault))

InitConcurrent ==
    /\ NoAuth
    /\ config \in Configs
    /\ clients = StorageClients("NewConfig", NewStorage(config))
    /\ calls = [c \in Callers |-> Idle]
    /\ getenv = {}
    /\ user = NoUser
    /\ scope = [NoScope EXCEPT !.ns = <<"n">>, !.keys = {<<"a">>},
                               !.values = {<<"h", "i">>}, !.objects = {<<"o">>},
                               !.answers = {CHOOSE a \in D1Answers :
                                                /\ a.status = StatusOK
                                                /\ a.json.success}]
    /\ kvStore = {}
    /\ r2Store = {}
    /\ last = NoCall
    /\ openBodies = 0
    /\ streams = 0
    /\ InitHist

CallStep(c, call) ==
    /\ calls' = [calls EXCEPT ![c] = call]
    /\ UNCHANGED <<clients, getenv, user, scope, kvHist, r2Hist, openBodies, streams, inbox,
                   auth>>

\* fmt.Sprintf of the URL: the call reads BaseURL and AccountID.
ReadURLFields(c) ==
    /\ calls[c].pc = "idle"
    /\ \E op \in ConcurrentOps, val \in scope.values, answer \in scope.answers :
           \E key \in IF op \in {"UploadObject", "DeleteObject"}
                      THEN scope.objects ELSE scope.keys :
               CallStep(c, [pc |-> "url", op |-> op, key |-> key, val |-> val,
                            answer |-> answer,
                            cfg |-> [ZeroConfig EXCEPT !.BaseURL = config.BaseURL,
                                                       !.AccountID = config.AccountID]])
    /\ config' = ConfigAfterRead(config)
    /\ UNCHANGED <<kvStore, r2Store, last>>

\* req.Header.Add("Authorization", ...): the call reads APIToken.
ReadToken(c) ==
    /\ calls[c].pc = "url"
    /\ CallStep(c, [calls[c] EXCEPT !.pc = "request",
                                    !.cfg = [@ EXCEPT !.APIToken = config.APIToken]])
    /\ UNCHANGED <<config, kvStore, r2Store, last>>

\* client.Do and the rest of the method, up to its return statement.
RoundTrip(c) ==
    /\ calls[c].pc = "request"
    /\ \E fault \in ConcurrentFaults :
           \E done \in {Invoke(calls[c].cfg, kvStore, r2Store, calls[c], fault)} :
               /\ CallStep(c, [pc |-> "answered", op |-> calls[c].op,
                               key |-> calls[c].key, val |-> calls[c].val,
                               answer |-> calls[c].answer, cfg |-> calls[c].cfg,
                               fault |-> fault, kv |-> kvStore, r2 |-> r2Store,
                               res |-> done.res])
               /\ kvStore' = done.kv
               /\ r2Store' = done.r2
    /\ UNCHANGED <<config, last>>

\* The caller has the result.
ReturnCall(c) ==
    /\ calls[c].pc = "answered"
    /\ last' = [op |-> calls[c].op, caller |-> c, fault |-> calls[c].fault,
                res |-> calls[c].res]
    /\ CallStep(c, Idle)
    /\ UNCHANGED <<config, kvStore, r2Store>>

NextConcurrent ==
    \E c \in Callers : ReadURLFields(c) \/ ReadToken(c) \/ RoundTrip(c) \/ ReturnCall(c)

SpecConcurrent == InitConcurrent /\ [][NextConcurrent]_vars

(***************************************************************************)
(* Claims about the auth wrappers (specification SpecAuth)                 *)
(***************************************************************************)
Wrapped == auth.wrapper \in {"AuthMiddleware", "RequireAuth"}

\* The header of the request served is "Bearer " followed by t.
IsBearerOf(r, t) == r.hasAuth /\ r.authorization = BearerPrefix \o t

BearerRest(r) ==
    SubSeq(r.authorization, Len(BearerPrefix) + 1, Len(r.authorization))

\* C1: under AuthMiddleware and under RequireAuth the wrapped handler is
\* called only after GetTokenFromRequest succeeded and the backend verifier
\* accepted the extracted token for this request; when extraction or
\* verification fails the handler is not called and the status is 401.
C1_HandlerOnlyAfterVerification ==
    Wrapped =>
        LET e == auth.out.events
        IN /\ \A i \in 1..Len(e) :
                e[i].ev = "next" =>
                    \E j, k \in 1..Len(e) :
                        /\ j < k /\ k < i
                        /\ e[j].ev = "GetTokenFromRequest" /\ e[j].ok
                        /\ IsBearerOf(inbox.req, e[j].token)
                        /\ e[k].ev = "VerifyIDToken" /\ e[k].ok
                        /\ e[k].token = e[j].token
                        /\ inbox.answer.ok /\ auth.out.backend = 1
           /\ Len(auth.out.calls) = Cardinality({i \in 1..Len(e) : e[i].ev = "next"})
           /\ (\E i \in 1..Len(e) : ~e[i].ok) =>
                  /\ auth.out.calls = <<>>
                  /\ auth.out.resp.status = StatusUnauthorized

\* A request with a well-formed header whose token the backend rejected.
C1_Witness ==
    /\ auth.wrapper = "AuthMiddleware"
    /\ IsBearerOf(inbox.req, <<"a">>)
    /\ ~inbox.answer.ok
    /\ auth.out.backend = 1
    /\ auth.out.resp.status = StatusUnauthorized

\* C2: when verification succeeds the wrapper calls the wrapped handler
\* exactly once, with a context in which GetUIDFromContext answers the
\* verified token's UID and GetTokenFromContext answers that token, both
\* with a nil error.
C2_HandlerSeesVerifiedIdentity ==
    (Wrapped /\ \E i \in 1..Len(auth.out.events) :
                    auth.out.events[i].ev = "VerifyIDToken" /\ auth.out.events[i].ok) =>
        /\ Len(auth.out.calls) = 1
        /\ auth.out.calls[1].uid = [uid |-> inbox.answer.uid, err |-> NoErr]
        /\ auth.out.calls[1].token =
               [token |-> [nil |-> FALSE, UID |-> inbox.answer.uid,
                           raw |-> BearerRest(inbox.req)],
                err |-> NoErr]

\* An accepted request whose context already held values under both keys.
C2_Witness ==
    /\ auth.wrapper = "RequireAuth"
    /\ inbox.answer.ok
    /\ Len(auth.out.calls) = 1
    /\ inbox.req.ctx = <<[key |-> uidKey, val |-> IntVal]>>
    /\ auth.out.calls[1].uid.uid = inbox.answer.uid

\* C3: GetTokenFromRequest answers token t and a nil error exactly when the
\* Authorization header is "Bearer " (in this letter case) followed by t;
\* for an absent or empty header and for every other value it answers an
\* error and the empty token.
C3_BearerExtraction ==
    Wrapped =>
        LET x == auth.out.events[1]
            r == inbox.req
        IN /\ x.ev = "GetTokenFromRequest"
           /\ x.ok <=> (r.hasAuth /\ Len(r.authorization) >= Len(BearerPrefix)
                        /\ IsBearerOf(r, BearerRest(r)))
           /\ x.ok => IsBearerOf(r, x.token)
           /\ ~x.ok => x.token = <<>>

\* A lower-case "bearer " header was refused.
C3_Witness ==
    /\ Wrapped
    /\ inbox.req.hasAuth
    /\ inbox.req.authorization = <<"b", "e", "a", "r", "e", "r", " ", "a">>
    /\ ~auth.out.events[1].ok

\* The innermost entry of ctx under key: 0 when there is none.
Innermost(ctx, key) ==
    LET is == {i \in 1..Len(ctx) : ctx[i].key = key}
    IN IF is = {} THEN 0 ELSE CHOOSE i \in is : \A j \in is : j <= i

HoldsTyped(ctx, key, type) ==
    Innermost(ctx, key) # 0 /\ ctx[Innermost(ctx, key)].val.type = type

\* C9: GetUIDFromContext and GetTokenFromContext answer a non-nil error
\* whenever the context holds no value under the expected key or holds one
\* of the wrong type; so they do for every context that holds nothing under
\* the package's own keys.
C9_AccessorsFailExplicitly ==
    \A i \in 1..Len(auth.out.calls) :
        LET c == auth.out.calls[i]
        IN /\ ~HoldsTyped(c.ctx, uidKey, "string") => c.uid.err # NoErr
           /\ ~HoldsTyped(c.ctx, tokenKey, "*auth.Token") => c.token.err # NoErr
           /\ (\A n \in 1..Len(c.ctx) : c.ctx[n].key.type # "contextKey") =>
                  c.uid.err # NoErr /\ c.token.err # NoErr

\* A handler outside the wrapper, the uid key holding an int.
C9_Witness ==
    /\ auth.wrapper = "unwrapped"
    /\ inbox.req.ctx = <<[key |-> uidKey, val |-> IntVal]>>
    /\ auth.out.calls[1].uid.err # NoErr

(***************************************************************************)
(* Claims about the KV client (specification SpecKV)                       *)
(***************************************************************************)
NotFoundPrefix == "key not found: "

IsNotFound(res) == res.err # NoErr /\ res.err[1] = NotFoundPrefix

\* C4: when WriteValue(ns, key, v) returned nil and nothing was attempted on
\* the key since, a ReadValue(ns, key) that the service answers returns
\* exactly v and a nil error.  A value written with an expiration may have
\* expired by then: the read returns v, or fails as not found.
C4_KVRoundTrip ==
    (last.op = "ReadValue" /\ last.fault = "none") =>
        LET h == kvHist[last.key]
            exact == /\ last.res.err = NoErr
                     /\ ~last.res.isNil
                     /\ last.res.body = h.val
        IN /\ h.st = "written" => exact
           /\ h.st = "expiring" => (exact \/ IsNotFound(last.res))

\* A key with URL delimiters in it read back while its neighbour holds
\* another value.
C4_Witness ==
    /\ last.op = "ReadValue" /\ last.fault = "none"
    /\ last.key = <<"a", "?", "b">>
    /\ kvHist[last.key] = Hist("written", <<"h", "i">>)
    /\ <<"a">> \in scope.keys /\ kvHist[<<"a">>] = Hist("written", <<>>)
    /\ last.res.body = <<"h", "i">>

\* C5: ReadValue of a key that was never written, or whose last mutation
\* was a DeleteValue that returned nil, returns no bytes and the error
\* "key not found: <key>"; that error is returned only when the service
\* answered the read (with 404), and the other failures of ReadValue
\* (another status, a transport failure, a body that cannot be read) carry
\* errors that start differently.
C5_NotFoundIsDistinct ==
    last.op = "ReadValue" =>
        /\ (last.fault = "none" /\ kvHist[last.key].st \in {"never", "deleted"}) =>
               /\ last.res.err = <<NotFoundPrefix>> \o last.key
               /\ last.res.isNil /\ last.res.body = <<>>
        /\ IsNotFound(last.res) => last.fault \in {"none", "body_cut"}
        /\ last.fault = "lost_request" => last.res.err[1] = "error making request: "
        /\ last.fault = "status500" => last.res.err[1] = "unexpected status code: "
        /\ last.fault = "body_cut" =>
               last.res.err[1] \in {"error reading response body: ", NotFoundPrefix}

\* A key written, deleted, and then read.
C5_Witness ==
    /\ last.op = "ReadValue" /\ last.fault = "none"
    /\ kvHist[last.key].st = "deleted"
    /\ IsNotFound(last.res)
    /\ \E k \in scope.keys : kvHist[k].st = "written"

(***************************************************************************)
(* Claims about WriteJSON and ReadJSON (specification SpecKVJSON)          *)
(***************************************************************************)
\* The target's type is interface{} or the type of x.
Compatible(target, x) ==
    \/ target.kind = "iface"
    \/ target.kind = "string" /\ x[1] = "string"
    \/ target.kind = "map" /\ x[1] = "map"

\* The target holds the zero value of its type.
Fresh(target) == target.val \in {GoNil, GoString(<<>>), GoMap({})}

ValidUTF8(s) == \A i \in 1..Len(s) : s[i] # InvalidByte

\* x is made of nil, booleans, float64 numbers, strings of valid UTF-8,
\* []interface{} and map[string]interface{} with keys of valid UTF-8.
RECURSIVE JSONData(_)
JSONData(x) ==
    CASE x[1] = "string" -> ValidUTF8(x[2])
      [] x[1] = "slice" -> \A i \in 1..Len(x[2]) : JSONData(x[2][i])
      [] x[1] = "map" -> \A p \in x[2] : ValidUTF8(p[1]) /\ JSONData(p[2])
      [] x[1] \in {"nil", "bool", "float64"} -> TRUE
      [] OTHER -> FALSE

\* A ReadJSON the service answered, of a key whose last mutation attempted
\* was a WriteJSON that returned nil.
ReadBack ==
    /\ last.op = "ReadJSON" /\ last.fault = "none"
    /\ kvHist[last.key].st = "written"
    /\ kvHist[last.key].doc # NoDoc

\* C6: the claim as stated.  After WriteJSON(ns, key, x) succeeded and nothing
\* else was done to the key, ReadJSON(ns, key, target) into a compatible
\* target succeeds and leaves the target equal to x.
C6_JSONRoundTripAsClaimed ==
    (ReadBack /\ Compatible(last.target, kvHist[last.key].doc)) =>
        /\ last.res.err = NoErr
        /\ last.res.target.val = kvHist[last.key].doc

\* C6: the claim as amended.  The same for x made of nil, booleans, float64
\* numbers, strings of valid UTF-8, []interface{} and map[string]interface{}
\* (keys of valid UTF-8), read into a compatible target that holds the zero
\* value of its type.
C6_JSONRoundTrip ==
    (/\ ReadBack
     /\ Compatible(last.target, kvHist[last.key].doc)
     /\ JSONData(kvHist[last.key].doc)
     /\ Fresh(last.target)) =>
        /\ last.res.err = NoErr
        /\ last.res.target.val = kvHist[last.key].doc

\* A nested map read back into an empty map under a key with a '/' in it.
C6_Witness ==
    /\ ReadBack
    /\ last.key = <<"a", "/", "b">>
    /\ last.target = Target("map", GoMap({}))
    /\ kvHist[last.key].doc =
           GoMap({<<<<"k">>, GoFloat(1)>>, <<<<"j">>, GoSlice(<<GoBool(FALSE)>>)>>})
    /\ last.res.target.val = kvHist[last.key].doc

(***************************************************************************)
(* Claims about the D1 client (specification SpecD1)                       *)
(***************************************************************************)
\* The service answered 200 with success=true and a result that is absent,
\* null or an empty list.
EmptyResultAnswered ==
    /\ last.op \in {"ExecuteQuery", "ExecuteQueryD1Result"}
    /\ last.fault = "none"
    /\ last.answer.status = StatusOK
    /\ last.answer.json.valid /\ last.answer.json.success
    /\ last.answer.json.result.kind \in {"absent", "null", "array"}
    /\ last.answer.json.result.items = <<>>

\* C7: when the server answers HTTP 200 with success=true and an empty or
\* absent result, ExecuteQuery (each version) returns a non-nil error, never
\* a nil or zero-valued result together with a nil error.
C7_EmptyResultIsAnError == EmptyResultAnswered => last.res.err # NoErr

(***************************************************************************)
(* Claims about the R2 client (specification SpecR2)                        *)
(***************************************************************************)
\* A GetObject that returned nil, of an object whose last upload returned nil
\* and that no call has touched since.
FetchedUploaded ==
    /\ last.op = "GetObject"
    /\ last.res.err = NoErr
    /\ r2Hist[last.key].st = "uploaded"

\* C8: the metadata map a successful GetObject returns equals the map that
\* was passed to the UploadObject before it: the same keys in the same
\* letter case, the same values, no extra entry.
C8_MetadataRoundTrip ==
    FetchedUploaded => last.res.metadata.pairs = r2Hist[last.key].meta.pairs

(***************************************************************************)
(* Claims about all the clients (specification SpecAllClients)              *)
(***************************************************************************)
\* C10: GetObject hands the response body over open when it returns nil, and
\* has closed it and returns a nil stream and nil metadata when it returns
\* an error; every other operation has closed the response body when it
\* returns.  So the bodies open are the streams the callers still hold, and
\* none is open once they closed them all.
C10_BodiesClosedOrHandedOver ==
    /\ openBodies = streams
    /\ last.op = "GetObject" /\ last.res.err = NoErr =>
           last.res.bodyOpen /\ ~last.res.stream.nil /\ ~last.res.metadata.nil
    /\ last.op = "GetObject" /\ last.res.err # NoErr =>
           ~last.res.bodyOpen /\ last.res.stream.nil /\ last.res.metadata.nil
    /\ last.op \notin {"none", "GetObject"} => ~last.res.bodyOpen

\* GetObject returned a stream and its caller has closed it since, after a
\* WriteValue on the KV client had returned nil.
C10_Witness ==
    /\ last.op = "GetObject"
    /\ last.res.err = NoErr
    /\ last.res.bodyOpen
    /\ r2Hist[last.key].st = "uploaded"
    /\ kvHist[<<"a">>].st = "written"
    /\ openBodies = 0
    /\ streams = 0

(***************************************************************************)
(* Claims about what the D1 and KV clients make of a response              *)
(* (specifications SpecD1 and SpecKV)                                      *)
(***************************************************************************)
\* The response the call got: the answer of the service, unless the request
\* was lost on the way.
D1Answered == last.op = "ExecuteQuery" /\ last.fault # "lost_request"

StatusError(status) == <<"unexpected status code: ">> \o Itoa(status)

\* C11: ExecuteQuery (the version returning *D1ResponseItem) returns a result
\* only if the status is 200 and the envelope has success=true; any other
\* status gives an error carrying the status code; status 200 with a decoded
\* envelope of success=false gives an error carrying the first message of
\* errors when there is one, and the generic message when there is none.
C11_ResultOnlyOnSuccess ==
    D1Answered =>
        /\ last.res.err = NoErr =>
               /\ last.answer.status = StatusOK
               /\ last.answer.json.valid /\ last.answer.json.success
               /\ ~last.res.isNil
        /\ last.res.err # NoErr => last.res.isNil
        /\ last.answer.status # StatusOK =>
               SubSeq(last.res.err, 1, Len(StatusError(last.answer.status)))
                   = StatusError(last.answer.status)
        /\ (/\ last.answer.status = StatusOK
            /\ last.fault = "none"
            /\ last.answer.json.valid
            /\ last.answer.json.result.kind # "object"
            /\ ~last.answer.json.success) =>
               last.res.err =
                   IF last.answer.json.errors # <<>>
                   THEN <<"request was not successful", ": ">>
                            \o last.answer.json.errors[1]
                   ELSE <<"request was not successful">>

\* The service answered 200, success=false with two error messages, and the
\* call failed with the first of them.
C11_Witness ==
    /\ D1Answered /\ last.fault = "none"
    /\ last.answer.status = StatusOK
    /\ ~last.answer.json.success
    /\ Len(last.answer.json.errors) = 2
    /\ last.res.err = <<"request was not successful", ": ", "no such table">>

\* C12: WriteValue and DeleteValue return nil only if the status is 200 and
\* the decoded envelope has success=true: a 200 whose envelope has
\* success=false, or whose body cannot be decoded, is an error.
C12_MutationChecksSuccess ==
    last.op \in {"WriteValue", "DeleteValue"} =>
        /\ last.res.err = NoErr <=> last.fault = "none"
        /\ last.fault = "success_false" =>
               last.res.err = <<"request was not successful">>
        /\ last.fault \in {"bad_json", "body_cut"} =>
               last.res.err = <<"error decoding response: ", "invalid JSON">>
        /\ last.fault = "status500" =>
               last.res.err = StatusError(StatusInternalServerError)

\* A DeleteValue was answered 200 with success=false and returned the error,
\* after a WriteValue of another key had returned nil.
C12_Witness ==
    /\ last.op = "DeleteValue"
    /\ last.fault = "success_false"
    /\ last.res.err = <<"request was not successful">>
    /\ \E k \in scope.keys : k # last.key /\ kvHist[k].st = "written"

(***************************************************************************)
(* Claims about the requests a call sends (specification SpecAllClients)   *)
(***************************************************************************)
\* The faults under which the one request of a call fails: it is lost on the
\* way out, its response is lost on the way back, or the answer is a 500.
FailingFaults == {"lost_request", "lost_response", "status500"}

\* C13: every D1, KV and R2 method call sends at most one request; when the
\* request fails (transport error, or a status that is not the success
\* status) the call returns a non-nil error and sends nothing more.
C13_OneRequestNoRetry ==
    last.op # "none" =>
        /\ Len(last.res.reqs) <= 1
        /\ last.fault \in FailingFaults => last.res.err # NoErr
        /\ (/\ last.op \in {"ExecuteQuery", "ExecuteQueryD1Result"}
            /\ last.answer.status # StatusOK) => last.res.err # NoErr
        /\ (last.op = "ReadValue" /\ kvHist[last.key].st \in {"never", "deleted"})
               => last.res.err # NoErr

\* A DeleteValue whose request was lost returned the transport error after
\* the one request, while the key it was to delete is still stored.
C13_Witness ==
    /\ last.op = "DeleteValue"
    /\ last.fault = "lost_request"
    /\ Len(last.res.reqs) = 1
    /\ last.res.err # NoErr
    /\ kvStore # {}

(***************************************************************************)
(* Claims about the configuration and the constructors (specification      *)
(* SpecConfig)                                                             *)
(***************************************************************************)
\* C14: once a CloudflareConfig has been constructed, no library operation
\* changes a field of it: not NewD1Client, NewKVClient, NewR2Client or
\* NewStorage handed that configuration, and not a client method.
C14_ConfigNeverWritten ==
    [][clients.origin # "none" => config' = config]_vars

\* The clients the program has built.
BuiltClients == { c \in {clients.d1, clients.kv, clients.r2} : c.built }

\* C18: every configuration the library itself creates (NewConfig,
\* NewStorageFromEnv) carries the default timeout of 30 seconds, so every
\* client built from such a configuration has a non-zero timeout.
C18_LibraryConfigsHaveTimeout ==
    clients.origin \in {"NewConfig", "NewStorageFromEnv"} =>
        /\ config.Timeout = DefaultTimeoutSeconds
        /\ \A c \in BuiltClients : c.timeout > 0

(***************************************************************************)
(* Claims about concurrent callers (specification SpecConcurrent)          *)
(***************************************************************************)
\* The configuration the clients of SpecConcurrent were built with.
BuiltWith == CHOOSE c \in Configs : TRUE

\* The result the call would have got alone: the whole method run on the
\* configuration the client was built with, against the stores the service
\* had when it handled the request and with the same fate of the response.
ReturnsAsAlone(call) ==
    call.pc = "answered" =>
        call.res = Invoke(BuiltWith, call.kv, call.r2, call, call.fault).res

\* C15: in any interleaving of concurrent method calls on the same clients,
\* or on clients sharing one CloudflareConfig, no call writes a field of a
\* client or of the shared configuration, and each call returns the result
\* it would return if run alone against the same server responses.
C15_ConcurrentCallsIndependent ==
    [][/\ config' = config
       /\ clients' = clients
       /\ \A c \in Callers : ReturnsAsAlone(calls'[c])]_vars

\* Two calls in flight at once on the same key: the ReadValue of caller 2 was
\* handled before the WriteValue of caller 1, which began first, and neither
\* has returned yet.
C15_Witness ==
    /\ calls[1].pc = "answered" /\ calls[1].op = "WriteValue"
    /\ calls[1].res.err = NoErr
    /\ calls[2].pc = "answered" /\ calls[2].op = "ReadValue"
    /\ calls[2].kv = {} /\ calls[2].res.err # NoErr
    /\ kvStore # {}

(***************************************************************************)
(* Claims about the URLs of the KV client (specification SpecKVNamespaces) *)
(***************************************************************************)
\* The request is for the namespace and the key of the call: its path has the
\* namespace as its seventh segment and, for a value, the key as its ninth
\* and last, each percent-escaped; its query is what the method adds.
AddressesCall(req, call) ==
    LET Addressed(segs) ==
            /\ Len(segs) = (IF call.op = "ListKeys" THEN 8 ELSE 9)
            /\ Unescape(segs[7]) = call.ns
            /\ call.op # "ListKeys" => Unescape(segs[9]) = call.key
            /\ call.op \in {"ReadValue", "DeleteValue"} => req.query = <<>>
            /\ call.op = "WriteValue" =>
                   req.query = (IF call.exp = NoExpiration THEN <<>>
                                ELSE SubSeq(ExpirationQuery(call.exp), 2,
                                            Len(ExpirationQuery(call.exp))))
    IN Addressed(Split(req.path, "/"))

\* C16: every KV operation (ListKeys, WriteValue, ReadValue, DeleteValue)
\* percent-escapes the namespace ID and the key, each as its own path
\* segment, so a '/', '?' or '#' in either cannot change the path structure
\* of the request or add a query string to it.
C16_NamespaceAndKeyAreSegments ==
    last.op \in {"ListKeys", "WriteValue", "ReadValue", "DeleteValue"} =>
        \A i \in 1..Len(last.res.reqs) : AddressesCall(last.res.reqs[i], last)

(***************************************************************************)
(* Claims about the two auth wrappers together (specification SpecAuth)    *)
(***************************************************************************)
\* C17: AuthMiddleware(next) and RequireAuth(fa, next) are observationally
\* equivalent: for every request and every answer of the verifier both make
\* the same verifier call, give the same status and body when they reject,
\* and call next with the same context values when they accept.
C17_WrappersEquivalent ==
    /\ AuthMiddleware(inbox.req, inbox.answer) = RequireAuth(inbox.req, inbox.answer)
    /\ auth.wrapper = "AuthMiddleware" =>
           auth.out = RequireAuth(inbox.req, inbox.answer)
    /\ auth.wrapper = "RequireAuth" =>
           auth.out = AuthMiddleware(inbox.req, inbox.answer)

\* RequireAuth rejected a request whose token the verifier refused, with the
\* response AuthMiddleware gives, and next was not called.
C17_Witness ==
    /\ auth.wrapper = "RequireAuth"
    /\ Len(auth.out.events) = 2
    /\ auth.out.calls = <<>>
    /\ auth.out.resp = AuthMiddleware(inbox.req, inbox.answer).resp
    /\ auth.out.resp.status = StatusUnauthorized

(***************************************************************************)
(* Claims about DeleteObject (specification SpecR2)                        *)
(***************************************************************************)
\* The error DeleteObject must return for what came back of its request.
DeleteObjectErrFor(rt, err) ==
    /\ rt.err # NoErr => err # NoErr
    /\ rt.err = NoErr =>
           /\ err = NoErr <=> rt.resp.status = StatusOK
           /\ rt.resp.status # StatusOK => err = StatusError(rt.resp.status)

\* C19: DeleteObject returns nil exactly when the response status is 200;
\* every other status, the 404 for a missing object included, returns the
\* generic unexpected-status error carrying the status code, so deleting an
\* object that is already deleted fails.
C19_DeleteObjectNilIff200 ==
    [][(last'.op = "DeleteObject" /\ last' # last /\ last'.res.reqs # <<>>) =>
           DeleteObjectErrFor(Do(R2Serve(r2Store, config, last'.res.reqs[1]),
                                 r2Store, last'.fault),
                              last'.res.err)]_vars

\* A DeleteObject of an object that is not there: the request was answered,
\* nothing is stored, and the call returned the error for status 404.
C19_Witness ==
    /\ last.op = "DeleteObject"
    /\ last.fault = "none"
    /\ R2Lookup(r2Store, <<"b">>, last.key) = {}
    /\ last.res.err = StatusError(StatusNotFound)

(***************************************************************************)
(* Claims about the headers of the requests (specification SpecAllClients) *)
(***************************************************************************)
\* The one value of the Authorization header of a request, as the service
\* reads it.
Authorization(req) ==
    HeaderValues_(req.headers, CanonicalMIMEHeaderKey(<<"Authorization">>))

\* C20: every request a D1Client, KVClient or R2Client method sends carries
\* an Authorization header whose value is "Bearer " followed by the API token
\* of the configuration the client was built with.
C20_EveryRequestAuthorized ==
    last.op # "none" =>
        \A i \in 1..Len(last.res.reqs) :
            Authorization(last.res.reqs[i]) = << <<"Bearer ">> \o config.APIToken >>

\* A GetObject sent its request, with the bearer token of the configuration,
\* and was handed the body of the object.
C20_Witness ==
    /\ last.op = "GetObject"
    /\ Len(last.res.reqs) = 1
    /\ Authorization(last.res.reqs[1]) = << <<"Bearer ", "tok">> >>
    /\ last.res.err = NoErr

(***************************************************************************)
(* Claims about a run of requests (specification SpecAuthRun)              *)
(***************************************************************************)
\* The header of the request is "Bearer " followed by a non-empty token.
WellFormed(r) ==
    /\ r.hasAuth
    /\ HasPrefix(r.authorization, BearerPrefix)
    /\ Len(r.authorization) > Len(BearerPrefix)

\* C21: a request handled by AuthMiddleware or RequireAuth calls the backend
\* verifier exactly once when its header is well-formed with a non-empty
\* token and not at all otherwise; the wrapped handler is called exactly when
\* the verifier accepts the token for this request, whatever it answered for
\* the same token on earlier requests.
C21_FreshVerificationEachRequest ==
    Wrapped =>
        /\ auth.out.backend = (IF WellFormed(inbox.req) THEN 1 ELSE 0)
        /\ Cardinality({i \in 1..Len(auth.out.events) :
                            auth.out.events[i].ev = "VerifyIDToken"
                            /\ auth.out.events[i].token # <<>>})
               = auth.out.backend
        /\ auth.out.calls # <<>> <=> (WellFormed(inbox.req) /\ inbox.answer.ok)
        /\ auth.out.calls = <<>> => auth.out.resp.status = StatusUnauthorized

\* The verifier accepted the token of an earlier request and rejects the same
\* token now: the request is refused after one call to the verifier.
C21_Witness ==
    /\ Wrapped
    /\ WellFormed(inbox.req)
    /\ BearerRest(inbox.req) \in auth.accepted
    /\ ~inbox.answer.ok
    /\ auth.out.backend = 1
    /\ auth.out.calls = <<>>
    /\ auth.out.resp.status = StatusUnauthorized

(***************************************************************************)
(* Claims about the environment (specification SpecConfig)                 *)
(***************************************************************************)
\* C22: the claim as stated.  No operation of the library packages reads an
\* environment variable.
C22_NoEnvironmentRead == getenv = {}

\* C22: the claim as amended.  No operation other than NewStorageFromEnv
\* reads an environment variable: a client built on a configuration of the
\* caller has the token and the account of that configuration, and nothing
\* was looked up; NewStorageFromEnv looks up CLOUDFLARE_API_TOKEN and
\* CLOUDFLARE_ACCOUNT_ID, and nothing else.
C22_OnlyFromEnvReadsEnvironment ==
    /\ clients.origin \in {"none", "NewConfig", "literal"} => getenv = {}
    /\ clients.origin \in {"NewConfig", "literal"} =>
           \E c \in Configs \cup LiteralConfigs :
               config.APIToken = c.APIToken /\ config.AccountID = c.AccountID
    /\ clients.origin = "NewStorageFromEnv" =>
           getenv = {"CLOUDFLARE_API_TOKEN", "CLOUDFLARE_ACCOUNT_ID"}

\* The KV client of NewStorageFromEnv wrote a value with the token the
\* environment held.
C22_Witness ==
    /\ clients.origin = "NewStorageFromEnv"
    /\ getenv # {}
    /\ config.APIToken = <<"tok">>
    /\ last.op = "WriteValue"
    /\ Len(last.res.reqs) = 1

(***************************************************************************)
(* Claims about what ExecuteQuery sends and returns (specification SpecD1) *)
(***************************************************************************)
D1Called == last.op \in {"ExecuteQuery", "ExecuteQueryD1Result"}

\* The members of the JSON object a request body is, read off the body.
BodyHasField(body, name) ==
    \E i \in 2..Len(body) : body[i] = name /\ body[i - 1] \in {"{", ","}

BodyParams(body) ==
    IF IndexOf(body, "[") = 0 THEN <<>>
    ELSE SubSeq(body, IndexOf(body, "[") + 1, IndexOf(body, "]") - 1)

\* C23: the request body ExecuteQuery builds always has the "sql" field, and
\* has the "params" field exactly when the list of positional parameters is
\* non-empty: a nil list and an empty list both give a body without
\* "params", and a non-empty list is sent with its elements in their order.
C23_ParamsOmittedWhenEmpty ==
    D1Called =>
        \A i \in 1..Len(last.res.reqs) :
            LET body == last.res.reqs[i].body
            IN /\ SubSeq(body, 1, 3 + Len(last.query))
                      = <<"{", "sql", ":">> \o last.query
               /\ BodyHasField(body, "params") <=> Len(last.params.elems) > 0
               /\ Len(last.params.elems) > 0 => BodyParams(body) = last.params.elems
               /\ Len(last.params.elems) = 0 =>
                      body = <<"{", "sql", ":">> \o last.query \o <<"}">>

\* A query sent with a list of parameters that is empty but not nil: the body
\* has "sql" and nothing else.
C23_Witness ==
    /\ last.op = "ExecuteQuery"
    /\ last.params = Params(FALSE, <<>>)
    /\ Len(last.res.reqs) = 1
    /\ ~BodyHasField(last.res.reqs[1].body, "params")
    /\ BodyHasField(last.res.reqs[1].body, "sql")

\* The service answered 200 with success=true and a result list that has
\* elements, and the answer reached the client whole.
D1ListAnswered ==
    /\ last.op = "ExecuteQuery"
    /\ last.fault = "none"
    /\ last.answer.status = StatusOK
    /\ last.answer.json.valid /\ last.answer.json.success
    /\ last.answer.json.result.kind = "array"
    /\ Len(last.answer.json.result.items) > 0

\* C24: on HTTP 200 with success=true and a non-empty result list,
\* ExecuteQuery returns the first element of the list, its rows in their
\* order and its metadata unchanged, whatever elements follow it.
C24_FirstResultReturned ==
    D1ListAnswered =>
        /\ last.res.err = NoErr
        /\ ~last.res.isNil
        /\ last.res.item = last.answer.json.result.items[1]
        /\ last.res.item.rows = last.answer.json.result.items[1].rows
        /\ last.res.item.changes = last.answer.json.result.items[1].changes

\* The result list had two elements, the first with two rows: the rows
\* returned are those two, in order.
C24_Witness ==
    /\ D1ListAnswered
    /\ Len(last.answer.json.result.items) = 2
    /\ last.answer.json.result.items[1] # last.answer.json.result.items[2]
    /\ last.res.item.rows = <<"row1", "row2">>

(***************************************************************************)
(* Claims about the request of WriteValue (specification SpecKVNamespaces) *)
(***************************************************************************)
\* The request of a WriteValue with the expiration exp (NoExpiration for a
\* nil pointer) of the value val.
WriteRequestFor(req, exp, val) ==
    /\ exp # NoExpiration => req.query = <<"expiration_ttl", "=">> \o Itoa(exp)
    /\ exp = NoExpiration => req.query = <<>> /\ IndexOf(req.url, "?") = 0
    /\ req.body = val
    /\ HeaderValues_(req.headers, CanonicalMIMEHeaderKey(<<"Content-Type">>))
           = << <<"application/octet-stream">> >>

\* C25: the URL of WriteValue's request carries the query parameter
\* expiration_ttl with the given number of seconds exactly when an expiration
\* is supplied (0 included) and no query string at all when it is absent; the
\* body is the raw value, sent as application/octet-stream.
C25_ExpirationIsTheOnlyQuery ==
    last.op = "WriteValue" =>
        \A i \in 1..Len(last.res.reqs) :
            WriteRequestFor(last.res.reqs[i], last.exp, last.val)

(***************************************************************************)
(* Claims about the request of UploadObject (specification SpecR2)         *)
(***************************************************************************)
\* C26: UploadObject's request carries one header "X-Metadata-"+k with value
\* v for each entry (k, v) of the metadata map and no other X-Metadata-
\* header (none for a nil or an empty map), and a Content-Type header exactly
\* when contentType is non-empty, with that value.  Header names are compared
\* as HTTP compares them, without regard to the case of their letters.
C26_MetadataAndContentTypeHeaders ==
    last.op = "UploadObject" =>
        \A i \in 1..Len(last.res.reqs) :
            LET req == last.res.reqs[i]
                sent == {h \in req.headers : HasPrefix(h.k, MetadataPrefix)}
            IN /\ \A p \in last.metadata.pairs :
                      \E h \in sent :
                          /\ h.k = CanonicalMIMEHeaderKey(MetadataPrefix \o p[1])
                          /\ \E n \in 1..Len(h.vs) : h.vs[n] = p[2]
               /\ \A h \in sent : \A n \in 1..Len(h.vs) :
                      \E p \in last.metadata.pairs :
                          /\ h.k = CanonicalMIMEHeaderKey(MetadataPrefix \o p[1])
                          /\ h.vs[n] = p[2]
               /\ LET total[hs \in SUBSET sent] ==
                          IF hs = {} THEN 0
                          ELSE LET h == CHOOSE x \in hs : TRUE
                               IN Len(h.vs) + total[hs \ {h}]
                  IN total[sent] = Cardinality(last.metadata.pairs)
               /\ HeaderValues_(req.headers, CanonicalMIMEHeaderKey(<<"Content-Type">>))
                      = (IF last.contentType = <<>> THEN <<>>
                         ELSE <<last.contentType>>)

\* An upload without a content type whose metadata has two keys that differ
\* in case only: both values are sent and there is no Content-Type header.
C26_Witness ==
    /\ last.op = "UploadObject"
    /\ Cardinality(last.metadata.pairs) = 2
    /\ last.contentType = <<>>
    /\ Len(last.res.reqs) = 1
    /\ \E h \in last.res.reqs[1].headers :
           HasPrefix(h.k, MetadataPrefix) /\ Len(h.vs) = 2

(***************************************************************************)
(* Claims about the errors of WriteJSON and ReadJSON (specification        *)
(* SpecKVJSON)                                                             *)
(***************************************************************************)
EncodePrefix == <<"error encoding value to JSON: ">>
DecodePrefix == <<"error decoding JSON value: ">>

\* What a WriteJSON that has just returned must have done.
WriteJSONErrFor(call, storeBefore, storeAfter) ==
    /\ Marshal(call.doc).err # NoErr =>
           /\ call.res.err = EncodePrefix \o Marshal(call.doc).err
           /\ call.res.reqs = <<>>
           /\ storeAfter = storeBefore
    /\ Marshal(call.doc).err = NoErr => ~HasPrefix(call.res.err, EncodePrefix)

\* What a ReadJSON that has just returned must have done, read being what
\* ReadValue returns for the same key against the same store.
ReadJSONErrFor(call, read) ==
    /\ read.err # NoErr =>
           /\ call.res.err = read.err
           /\ call.res.target = call.target
           /\ ~HasPrefix(call.res.err, DecodePrefix)
    /\ read.err = NoErr =>
           /\ HasPrefix(call.res.err, DecodePrefix)
                  <=> Unmarshal(read.body, call.target).err # NoErr
           /\ ~HasPrefix(call.res.err, DecodePrefix) => call.res.err = NoErr

\* C27: a WriteJSON whose value cannot be JSON-encoded returns an encoding
\* error without sending a request; ReadJSON returns the error of ReadValue
\* unchanged (not-found included) and leaves the target as it was when the
\* read fails, and returns a decoding error, unlike any transport or status
\* error, only when the read succeeded with bytes that do not decode into
\* the target.
C27_JSONErrorsKeptApart ==
    [][/\ (last'.op = "WriteJSON" /\ last' # last) =>
              WriteJSONErrFor(last', kvStore, kvStore')
       /\ (last'.op = "ReadJSON" /\ last' # last) =>
              ReadJSONErrFor(last', ReadValue(config, kvStore, last'.ns, last'.key,
                                              last'.fault))]_vars

\* A ReadJSON of a key that holds bytes written raw, which are not JSON: the
\* read was answered and the call returned a decoding error.
C27_Witness ==
    /\ last.op = "ReadJSON"
    /\ last.fault = "none"
    /\ Len(last.res.reqs) = 1
    /\ HasPrefix(last.res.err, DecodePrefix)
    /\ kvHist[last.key].st = "written"
    /\ kvHist[last.key].doc = NoDoc

(***************************************************************************)
(* Claims about the keys of the context (specification SpecAuth)           *)
(***************************************************************************)
\* The context holds nothing under a key of the package's own type: what it
\* holds was stored by code outside the package, under plain strings.
OnlyForeignKeys(ctx) == \A n \in 1..Len(ctx) : ctx[n].key.type = "string"

\* C28: GetUIDFromContext and GetTokenFromContext return only values stored
\* under the package's own keys, which AuthMiddleware and RequireAuth alone
\* use: a value stored under the plain string "uid" or "token" is never
\* returned, and the accessors fail on it as if the key were absent.
C28_ForeignKeysNeverRead ==
    \A i \in 1..Len(auth.out.calls) :
        LET c == auth.out.calls[i]
        IN /\ c.uid.err = NoErr =>
                  /\ Innermost(c.ctx, uidKey) # 0
                  /\ c.uid.uid = c.ctx[Innermost(c.ctx, uidKey)].val.s
           /\ c.token.err = NoErr =>
                  /\ Innermost(c.ctx, tokenKey) # 0
                  /\ c.token.token = c.ctx[Innermost(c.ctx, tokenKey)].val.tok
           /\ OnlyForeignKeys(c.ctx) =>
                  /\ c.uid = GetUIDFromContext(<<>>)
                  /\ c.token = GetTokenFromContext(<<>>)
           /\ Wrapped =>
                  /\ c.uid.uid = inbox.answer.uid
                  /\ c.token.token.UID = inbox.answer.uid

\* A handler run on a context in which outside code stored a string under
\* the plain key "uid": GetUIDFromContext failed.
C28_Witness ==
    /\ auth.wrapper = "unwrapped"
    /\ inbox.req.ctx = <<[key |-> [type |-> "string", name |-> "uid"],
                          val |-> StringVal(<<"x">>)]>>
    /\ auth.out.calls[1].uid.err # NoErr
    /\ auth.out.calls[1].uid.uid = <<>>

(***************************************************************************)
(* The user model: BaseUser, built from a Firebase user record             *)
(***************************************************************************)
\* A value held in an interface{}: its dynamic type, its text, and its
\* elements when it is a []interface{}.  Custom claims reach the program
\* decoded from JSON, so these are the dynamic types a claim has.
GoValue(kind, text, items) == [kind |-> kind, text |-> text, items |-> items]

NilValue == GoValue("nil", "", <<>>)

BoolValue(b) == GoValue("bool", IF b THEN "true" ELSE "false", <<>>)

StringValue(s) == GoValue("string", s, <<>>)

NumberValue(n) == GoValue("float64", n, <<>>)

ListValue(items) == GoValue("[]interface{}", "", items)

\* A map[string]interface{}: nil, or a map from some keys to values.
EmptyMap == [k \in {} |-> NilValue]

NilClaims == [isNil |-> TRUE, m |-> EmptyMap]

ClaimsOf(m) == [isNil |-> FALSE, m |-> m]

MsPerSecond == 1000

\* Go's integer division, which truncates toward zero.
GoDiv(a, b) == IF a >= 0 THEN a \div b ELSE -((-a) \div b)

\* time.Unix(sec, 0)
Unix(sec) == [unix |-> sec]

NilTime == [isNil |-> TRUE, t |-> Unix(0)]

TimePtr(t) == [isNil |-> FALSE, t |-> t]

\* Mutant: the last login is always converted.
LastLoginTimeAlways(lastLogin) == TimePtr(Unix(GoDiv(lastLogin, MsPerSecond)))

LastLoginTime(lastLogin) ==
    IF lastLogin > 0 THEN TimePtr(Unix(GoDiv(lastLogin, MsPerSecond))) ELSE NilTime

FromFirebaseUser(rec, data) ==
    LET createdAt == Unix(GoDiv(rec.UserMetadata.CreationTimestamp, MsPerSecond))
    IN [ID            |-> rec.UID,
        Email         |-> rec.Email,
        DisplayName   |-> rec.DisplayName,
        PhotoURL      |-> rec.PhotoURL,
        CreatedAt     |-> createdAt,
        UpdatedAt     |-> createdAt,
        LastLoginAt   |-> LastLoginTime(rec.UserMetadata.LastLogInTimestamp),
        Disabled      |-> rec.Disabled,
        EmailVerified |-> rec.EmailVerified,
        Claims        |-> rec.CustomClaims,
        Data          |-> data,
        PhoneNumber   |-> rec.PhoneNumber,
        PhoneVerified |-> rec.PhoneNumber # ""]

GetClaim(u, key) ==
    IF u.Claims.isNil THEN [val |-> NilValue, ok |-> FALSE]
    ELSE IF key \in DOMAIN u.Claims.m THEN [val |-> u.Claims.m[key], ok |-> TRUE]
    ELSE [val |-> NilValue, ok |-> FALSE]

\* r == role, for r an interface{} and role a string
EqualsString(r, role) == r.kind = "string" /\ r.text = role

\* Mutant: the direct role claim is looked at before the roles array.
HasRoleDirectFirst(u, role) ==
    IF u.Claims.isNil THEN FALSE
    ELSE IF role \in DOMAIN u.Claims.m /\ u.Claims.m[role].kind = "bool"
    THEN u.Claims.m[role].text = "true"
    ELSE /\ "roles" \in DOMAIN u.Claims.m
         /\ u.Claims.m["roles"].kind = "[]interface{}"
         /\ \E i \in 1..Len(u.Claims.m["roles"].items) :
                EqualsString(u.Claims.m["roles"].items[i], role)

HasRole(u, role) ==
    IF u.Claims.isNil THEN FALSE
    ELSE IF /\ "roles" \in DOMAIN u.Claims.m
            /\ u.Claims.m["roles"].kind = "[]interface{}"
            /\ \E i \in 1..Len(u.Claims.m["roles"].items) :
                   EqualsString(u.Claims.m["roles"].items[i], role)
    THEN TRUE
    ELSE IF role \in DOMAIN u.Claims.m /\ u.Claims.m[role].kind = "bool"
    THEN u.Claims.m[role].text = "true"
    ELSE FALSE

\* The user records looked at.
RolesClaims ==
    { ListValue(<<>>), ListValue(<<StringValue("admin")>>),
      ListValue(<<StringValue("editor"), StringValue("admin")>>),
      ListValue(<<NumberValue("1"), BoolValue(TRUE), StringValue("editor")>>),
      StringValue("admin"), BoolValue(TRUE), NilValue }

AdminClaims ==
    { BoolValue(TRUE), BoolValue(FALSE), StringValue("true"), NumberValue("1"),
      NilValue, ListValue(<<StringValue("admin")>>) }

CustomClaimsSets ==
    {NilClaims, ClaimsOf(EmptyMap)}
    \cup { ClaimsOf("roles" :> r) : r \in RolesClaims }
    \cup { ClaimsOf("admin" :> a) : a \in AdminClaims }
    \cup { ClaimsOf("roles" :> r @@ "admin" :> a) : r \in RolesClaims, a \in AdminClaims }

RoleNames == {"admin", "editor", "roles"}

Timestamps == {-1500, 0, 999, 1500, 62000}

UserRecords ==
    { [UID |-> "uid1", Email |-> "a@x", PhoneNumber |-> phone,
       DisplayName |-> "Ann", PhotoURL |-> "http://p", Disabled |-> flags[1],
       EmailVerified |-> flags[2], CustomClaims |-> claims,
       UserMetadata |-> [CreationTimestamp |-> stamps[1],
                         LastLogInTimestamp |-> stamps[2]]] :
        phone \in {"", "+966555555555"}, flags \in BOOLEAN \X BOOLEAN,
        claims \in CustomClaimsSets,
        stamps \in {1500, -1500, 62000} \X Timestamps }

AppUserData == {"dark", "light"}

NoQuestion ==
    [op |-> "none", arg |-> "", has |-> FALSE, got |-> [val |-> NilValue, ok |-> FALSE]]

\* The zero BaseUser: what the variable holds before a record is converted.
ZeroBaseUser ==
    [ID |-> "", Email |-> "", DisplayName |-> "", PhotoURL |-> "",
     CreatedAt |-> Unix(0), UpdatedAt |-> Unix(0), LastLoginAt |-> NilTime,
     Disabled |-> FALSE, EmailVerified |-> FALSE, Claims |-> NilClaims,
     Data |-> "", PhoneNumber |-> "", PhoneVerified |-> FALSE]

\* A record has been fetched (GetUserByUID) and the application data made up.
InitUser ==
    /\ user \in [stage : {"fetched"}, rec : UserRecords, data : AppUserData,
                 base : {ZeroBaseUser}, asked : {NoQuestion}]
    /\ NoAuth
    /\ NoClients

\* baseUser := firebase.FromFirebaseUser(fbUser, userData)
ConvertUser ==
    /\ user.stage = "fetched"
    /\ user' = [user EXCEPT !.stage = "converted",
                            !.base = FromFirebaseUser(user.rec, user.data)]
    /\ UNCHANGED <<inbox, auth, config, clients, calls, getenv, scope, kvStore,
                   kvHist, r2Store, r2Hist, last, openBodies, streams>>

AskHasRole ==
    /\ user.stage = "converted"
    /\ \E role \in RoleNames :
           user' = [user EXCEPT !.asked = [op |-> "HasRole", arg |-> role,
                                            has |-> HasRole(user.base, role),
                                            got |-> NoQuestion.got]]
    /\ UNCHANGED <<inbox, auth, config, clients, calls, getenv, scope, kvStore,
                   kvHist, r2Store, r2Hist, last, openBodies, streams>>

AskGetClaim ==
    /\ user.stage = "converted"
    /\ \E key \in RoleNames :
           user' = [user EXCEPT !.asked = [op |-> "GetClaim", arg |-> key,
                                            has |-> FALSE,
                                            got |-> GetClaim(user.base, key)]]
    /\ UNCHANGED <<inbox, auth, config, clients, calls, getenv, scope, kvStore,
                   kvHist, r2Store, r2Hist, last, openBodies, streams>>

NextUser == ConvertUser \/ AskHasRole \/ AskGetClaim

SpecUser == InitUser /\ [][NextUser]_vars

(***************************************************************************)
(* Claims about the user model (specification SpecUser)                    *)
(***************************************************************************)
\* role is an element of the list stored under the claim "roles".
InRolesList(claims, role) ==
    /\ ~claims.isNil
    /\ "roles" \in DOMAIN claims.m
    /\ claims.m["roles"].kind = "[]interface{}"
    /\ StringValue(role) \in { claims.m["roles"].items[i] :
                                 i \in 1..Len(claims.m["roles"].items) }

\* The claim named role is stored and is a boolean.
DirectBoolean(claims, role) ==
    /\ ~claims.isNil
    /\ role \in DOMAIN claims.m
    /\ claims.m[role] \in {BoolValue(TRUE), BoolValue(FALSE)}

\* C29: HasRole(role) is true if role is an element of the list stored under
\* Claims["roles"]; otherwise, if Claims[role] is a boolean, it is that
\* boolean; in every other case (nil Claims, "roles" absent or not a list,
\* Claims[role] absent or not a boolean) it is false.  GetClaim(key) returns
\* (nil, false) for nil Claims and otherwise the stored value with a flag
\* telling whether the key is present.
C29_HasRoleAndGetClaim ==
    LET claims == user.base.Claims
        asked == user.asked
    IN /\ asked.op = "HasRole" =>
              asked.has = IF InRolesList(claims, asked.arg) THEN TRUE
                          ELSE IF DirectBoolean(claims, asked.arg)
                          THEN claims.m[asked.arg] = BoolValue(TRUE)
                          ELSE FALSE
       /\ asked.op = "GetClaim" =>
              /\ claims.isNil => asked.got = [val |-> NilValue, ok |-> FALSE]
              /\ ~claims.isNil =>
                     /\ asked.got.ok <=> asked.arg \in DOMAIN claims.m
                     /\ asked.got.ok => asked.got.val = claims.m[asked.arg]

\* A user whose "roles" list names admin and whose "admin" claim is the
\* boolean false was asked for the role admin: it has it.
C29_Witness ==
    /\ user.stage = "converted"
    /\ user.asked.op = "HasRole"
    /\ user.asked.arg = "admin"
    /\ InRolesList(user.base.Claims, "admin")
    /\ DirectBoolean(user.base.Claims, "admin")
    /\ user.base.Claims.m["admin"] = BoolValue(FALSE)
    /\ user.asked.has

\* sec is ms divided by 1000, the remainder dropped.
WholeSeconds(ms, sec) ==
    IF ms >= 0 THEN 1000 * sec <= ms /\ ms < 1000 * sec + 1000
    ELSE 1000 * sec - 1000 < ms /\ ms <= 1000 * sec

\* C30: FromFirebaseUser(user, data) sets PhoneVerified exactly when the
\* record's phone number is non-empty, LastLoginAt to nil exactly when the
\* last-login timestamp is not positive and otherwise to that millisecond
\* timestamp in whole seconds, UpdatedAt and CreatedAt to the creation
\* timestamp in whole seconds, and copies the UID, email, phone number,
\* display name, photo URL, disabled flag, email-verified flag, custom claims
\* and the data argument unchanged.
C30_FromFirebaseUser ==
    user.stage = "converted" =>
        LET rec == user.rec
            base == user.base
        IN /\ base.PhoneVerified <=> rec.PhoneNumber # ""
           /\ base.LastLoginAt.isNil <=> ~(rec.UserMetadata.LastLogInTimestamp > 0)
           /\ ~base.LastLoginAt.isNil =>
                  WholeSeconds(rec.UserMetadata.LastLogInTimestamp,
                               base.LastLoginAt.t.unix)
           /\ base.UpdatedAt = base.CreatedAt
           /\ WholeSeconds(rec.UserMetadata.CreationTimestamp, base.CreatedAt.unix)
           /\ base.ID = rec.UID
           /\ base.Email = rec.Email
           /\ base.PhoneNumber = rec.PhoneNumber
           /\ base.DisplayName = rec.DisplayName
           /\ base.PhotoURL = rec.PhotoURL
           /\ base.Disabled = rec.Disabled
           /\ base.EmailVerified = rec.EmailVerified
           /\ base.Claims = rec.CustomClaims
           /\ base.Data = user.data

\* A record with a phone number, created at 62000 ms, that never logged in
\* (timestamp 0) was converted: the phone counts as verified, the user was
\* created at second 62 and has no last login.
C30_Witness ==
    /\ user.stage = "converted"
    /\ user.rec.PhoneNumber # ""
    /\ user.rec.UserMetadata.LastLogInTimestamp = 0
    /\ user.rec.UserMetadata.CreationTimestamp = 62000
    /\ user.base.PhoneVerified
    /\ user.base.LastLoginAt.isNil
    /\ user.base.CreatedAt.unix = 62
    /\ user.base.Data = "light"

====
